---------------------------- MODULE Spec2Model ----------------------------
(***************************************************************************)
(* A model of the kamaya newsletter analyser.                              *)
(*                                                                         *)
(*  - src/src/app/api/extract/route.ts : the pure helpers                  *)
(*    getGoogleDriveDownloadUrl and sanitizeFilename, and the handler POST *)
(*    with savePdfAndRespond and the files of the download directory.      *)
(*  - src/src/app/api/analyze/route.ts : the handler POST.                 *)
(*  - src/src/app/api/scrape/route.ts : the date of fetchArticleDetails    *)
(*    and the event stream of the handler GET.                             *)
(*  - src/src/app/api/load-pdfs/route.ts : the handler POST.               *)
(*  - src/unnamed/part_001 : the browser page (component Home) with its    *)
(*    handlers handleLoadSavedPdfs, handleScrape, handleExtract,           *)
(*    handleAnalyze, handleCancel, downloadReportAsJson and                *)
(*    loadReportFromJson.                                                  *)
(*                                                                         *)
(* Strings are sequences of one-character strings, so that the regular     *)
(* expressions, trim and substring of the source are computed character by *)
(* character.  The time stamp that addLog puts in front of a message is    *)
(* left out; a log line is a record of its kind and the document it names. *)
(* The component state progress and savedPdfCount is display-only and is   *)
(* not part of the model; the awaits that read them are still steps.       *)
(* downloadReportAsCsv takes no part in the runs modelled here and is left *)
(* out.                                                                    *)
(***************************************************************************)
EXTENDS Integers, Sequences, FiniteSets, TLC

VARIABLES
    \* ---- getGoogleDriveDownloadUrl (extract/route.ts) ----
    viewUrl,        \* the argument
    downloadUrl,    \* the value returned, NoValue before the call
    \* ---- sanitizeFilename (extract/route.ts) ----
    title,          \* the argument
    filename,       \* sanitizeFilename(title), NoValue before the call
    filename2,      \* sanitizeFilename(filename), NoValue before the call
    \* ---- component Home (part_001): React state ----
    step,           \* 'idle' | 'scraping' | 'extracting' | 'analyzing' | 'loading' | 'complete'
    articles,       \* Article[]
    pdfDataList,    \* PdfData[]
    results,        \* AnalysisResults | null
    logs,           \* string[]
    error,          \* string | null
    apiKey,         \* string
    skippedCount,   \* number
    abortControllerRef, \* the run whose AbortController the ref holds, or "null"
    aborted,        \* run -> signal.aborted of the AbortController that run created
    \* ---- handleScrape in progress ----
    pcScrape,       \* "idle" | "reading" | "closing"
    scrapeMsgs,     \* log/progress messages read in this run
    \* ---- handleExtract in progress: its local variables ----
    pcExtract,      \* "idle" | "fetch" | "wait" | "saving" | "done"
    targets, extractI, pdfs, cachedCount, downloadedCount, skippedLocal,
    extractSent,    \* history: the /api/extract requests started in this run
    extractEnded,   \* history: how the last run ended: "no" | "normal" | "cancel"
    extractRuns,    \* history: runs started
    \* ---- handleAnalyze in progress: its local variables ----
    pcAnalyze,      \* "idle" | "fetch" | "wait" | "done"
    analyzePdfs,    \* pdfDataList as the handler's closure holds it
    analyzeI, countMaps, successCount, errorCount,
    analyzeSent,    \* history: the /api/analyze requests started in this run
    analyzeOk,      \* history: the data of the documents counted as successes
    analyzeEnded,   \* history: how the run ended: "no" | "normal" | "cancel"
    analyzeTimer,   \* milliseconds left of the wait between two requests
    \* ---- the user ----
    cancelClicks,   \* history: clicks on a cancel button
    \* ---- POST /api/extract (extract/route.ts): the server side ----
    downloads,      \* DOWNLOAD_DIR: file name -> the file, or NoFile
    reqs,           \* request -> the handler instance serving it
    \* ---- POST /api/analyze (analyze/route.ts) ----
    aReq,           \* the request body and the text the model replies with
    aResp,          \* the response, NoValue before the call
    \* ---- fetchArticleDetails (scrape/route.ts): the date ----
    pageTitle,      \* the text of the page's h1
    pageBody,       \* the rest of the page
    artDate,        \* article.date, NoValue before the call
    \* ---- downloadReportAsJson / loadReportFromJson (part_001) ----
    reportFile,     \* the last downloaded report: its text; history: the results it
                    \* was made of, and whether it has been loaded again
    reportLoads,    \* history: report files loaded with success
    \* ---- handleLoadSavedPdfs in progress (part_001) ----
    pcLoad,         \* "idle" | "meta" | "batch" | "wait"
    loadNames,      \* filenames: the names GET /api/load-pdfs listed
    loadI,          \* i, the start of the batch
    allPdfs,        \* allPdfs
    loadRuns,       \* history: runs started
    \* ---- GET /api/scrape (scrape/route.ts): the event stream ----
    gPc,            \* "new" | "pages" | "details" | "filter" | "catch" | "finally" | "done"
    gPage,          \* page
    gUrls,          \* allUrls.size
    gI,             \* i
    gStream,        \* the messages enqueued, in order
    gState,         \* the stream: "readable" | "closed" | "cancelled"
    gRejected,      \* start() has rejected
    \* ---- POST /api/load-pdfs (load-pdfs/route.ts) ----
    lpReq,          \* the body of the request
    lpRead,         \* history: the paths given to readFile, in order
    lpResp          \* the response, Unset before the call

pureVars == <<viewUrl, downloadUrl, title, filename, filename2>>

homeVars == <<step, articles, pdfDataList, results, logs, error, apiKey,
              skippedCount, abortControllerRef, aborted>>
scrapeVars == <<pcScrape, scrapeMsgs>>
extractVars == <<pcExtract, targets, extractI, pdfs, cachedCount,
                 downloadedCount, skippedLocal, extractSent, extractEnded,
                 extractRuns>>
analyzeVars == <<pcAnalyze, analyzePdfs, analyzeI, countMaps, successCount,
                 errorCount, analyzeSent, analyzeOk, analyzeEnded,
                 analyzeTimer>>
clientVars == <<homeVars, scrapeVars, extractVars, analyzeVars, cancelClicks>>

routeVars == <<downloads, reqs, aReq, aResp, pageTitle, pageBody, artDate,
               reportFile>>

loadVars == <<pcLoad, loadNames, loadI, allPdfs, loadRuns, reportLoads>>
getVars == <<gPc, gPage, gUrls, gI, gStream, gState, gRejected>>
lpVars == <<lpReq, lpRead, lpResp>>
lateVars == <<loadVars, getVars, lpVars>>

vars == <<pureVars, clientVars, routeVars, lateVars>>

NoValue == <<"<none>">>

-----------------------------------------------------------------------------
(* String helpers.                                                         *)

\* s.substring(0, n)
Substring0(s, n) == SubSeq(s, 1, IF Len(s) < n THEN Len(s) ELSE n)

\* s.substring(p - 1): the characters of s from position p (1-based) on
From(s, p) == SubSeq(s, p, Len(s))

\* the literal pat occurs in s at position p
HasAt(s, p, pat) ==
    /\ p >= 1
    /\ p + Len(pat) - 1 <= Len(s)
    /\ \A k \in 1..Len(pat) : s[p + k - 1] = pat[k]

\* the longest prefix of s that has no character of stop: a greedy [^stop]*
RECURSIVE TakeWhileNot(_, _)
TakeWhileNot(s, stop) ==
    IF s = <<>> \/ Head(s) \in stop THEN <<>>
    ELSE <<Head(s)>> \o TakeWhileNot(Tail(s), stop)

RECURSIVE Concat(_)
Concat(ss) == IF ss = <<>> THEN <<>> ELSE Head(ss) \o Concat(Tail(ss))

Repeat(c, n) == [k \in 1..n |-> c]

\* sequences over S of length at most n
SeqsUpTo(S, n) == UNION {[1..k -> S] : k \in 0..n}

-----------------------------------------------------------------------------
(* getGoogleDriveDownloadUrl                                               *)

FileDPrefix == <<"/", "f", "i", "l", "e", "/", "d", "/">>
IdParam == <<"i", "d", "=">>
DriveDownloadBase ==
    <<"h", "t", "t", "p", "s", ":", "/", "/", "d", "r", "i", "v", "e", ".", "g", "o", "o", "g", "l", "e", ".", "c", "o", "m", "/", "u", "c", "?">> \o
    <<"e", "x", "p", "o", "r", "t", "=", "d", "o", "w", "n", "l", "o", "a", "d", "&", "i", "d", "=">>

\* viewUrl.match(/\/file\/d\/([^/]+)/): the group captured by the leftmost
\* match at a position >= p, <<>> when there is no match (a captured group is
\* never empty).
RECURSIVE MatchFileD(_, _)
MatchFileD(s, p) ==
    IF p > Len(s) THEN <<>>
    ELSE IF HasAt(s, p, FileDPrefix)
            /\ TakeWhileNot(From(s, p + Len(FileDPrefix)), {"/"}) # <<>>
         THEN TakeWhileNot(From(s, p + Len(FileDPrefix)), {"/"})
         ELSE MatchFileD(s, p + 1)

\* viewUrl.match(/[?&]id=([^&]+)/)
RECURSIVE MatchIdParam(_, _)
MatchIdParam(s, p) ==
    IF p > Len(s) THEN <<>>
    ELSE IF s[p] \in {"?", "&"}
            /\ HasAt(s, p + 1, IdParam)
            /\ TakeWhileNot(From(s, p + 1 + Len(IdParam)), {"&"}) # <<>>
         THEN TakeWhileNot(From(s, p + 1 + Len(IdParam)), {"&"})
         ELSE MatchIdParam(s, p + 1)

\* a variant for comparison: the query-parameter shape is tried first
getGoogleDriveDownloadUrlQueryFirst(url) ==
    IF MatchIdParam(url, 1) # <<>> THEN DriveDownloadBase \o MatchIdParam(url, 1)
    ELSE IF MatchFileD(url, 1) # <<>> THEN DriveDownloadBase \o MatchFileD(url, 1)
    ELSE url

getGoogleDriveDownloadUrl(url) ==
    IF MatchFileD(url, 1) # <<>> THEN DriveDownloadBase \o MatchFileD(url, 1)
    ELSE IF MatchIdParam(url, 1) # <<>> THEN DriveDownloadBase \o MatchIdParam(url, 1)
    ELSE url

\* The viewer URLs tried: up to MaxUrlPieces pieces put one after the other.
MaxUrlPieces == 5
UrlPieces ==
    { FileDPrefix, <<"/">>, <<"?">> \o IdParam, <<"&">> \o IdParam,
      <<"x">> \o IdParam, <<"A">>, <<"B">>, <<"&">>, <<"/", "v", "i", "e", "w">> }
UrlInputs == { Concat(ps) : ps \in SeqsUpTo(UrlPieces, MaxUrlPieces) }

-----------------------------------------------------------------------------
(* sanitizeFilename                                                        *)

MaxFilenameLength == 100
ForbiddenChars == {"<", ">", ":", "\"", "/", "\\", "|", "?", "*"}
\* the characters of the model that the class \s matches
Whitespace == {" ", "\t"}

\* .replace(/[<>:"/\\|?*]/g, '')
StripForbidden(s) == SelectSeq(s, LAMBDA c : c \notin ForbiddenChars)

\* .replace(/\s+/g, '_'): every maximal run of whitespace becomes one "_"
\* (the last character of a run becomes "_", the others go)
CollapseWhitespace(s) ==
    LET Dropped == "<dropped>"
        marked == [k \in 1..Len(s) |->
                     IF s[k] \notin Whitespace THEN s[k]
                     ELSE IF k < Len(s) /\ s[k + 1] \in Whitespace THEN Dropped
                     ELSE "_"]
    IN  SelectSeq(marked, LAMBDA c : c # Dropped)

\* a variant for comparison: the length cap is forgotten
sanitizeFilenameNoCap(t) == CollapseWhitespace(StripForbidden(t))

sanitizeFilename(t) ==
    Substring0(CollapseWhitespace(StripForbidden(t)), MaxFilenameLength)

\* The titles tried: a short head, a long run of one letter whose length is
\* around the cap, and a short tail.
MaxTitleEdge == 2
TitleChars == {"a", " ", "\t", "?", "_"}
FillerLengths == {0} \cup ((MaxFilenameLength - 2)..MaxFilenameLength)
TitleInputs ==
    { h \o Repeat("a", n) \o t :
        h \in SeqsUpTo(TitleChars, MaxTitleEdge),
        n \in FillerLengths,
        t \in SeqsUpTo(TitleChars, MaxTitleEdge) }

-----------------------------------------------------------------------------
(* The browser page: aggregation helpers of handleAnalyze.                 *)

\* an item of the reply that is not a string (a number, null, an object):
\* item.trim() throws a TypeError on it
NonString == <<"<not a string>">>

RECURSIVE TrimStart(_)
TrimStart(s) ==
    IF s # <<>> /\ Head(s) \in Whitespace THEN TrimStart(Tail(s)) ELSE s

RECURSIVE TrimEnd(_)
TrimEnd(s) ==
    IF s # <<>> /\ s[Len(s)] \in Whitespace
    THEN TrimEnd(SubSeq(s, 1, Len(s) - 1)) ELSE s

\* String.prototype.trim
Trim(s) == TrimEnd(TrimStart(s))

Categories == <<"ingredients", "dishes", "cookingMethods", "seasons">>

\* A Map<string, number> is the sequence of its entries in insertion order.
EmptyMaps == [c \in {Categories[k] : k \in 1..Len(Categories)} |-> <<>>]

MapHas(m, key) == \E k \in 1..Len(m) : m[k].name = key

\* map.get(key) || 0
MapGet(m, key) ==
    IF MapHas(m, key)
    THEN (CHOOSE e \in {m[k] : k \in 1..Len(m)} : e.name = key).count
    ELSE 0

\* map.set(key, n): an existing key keeps its place, a new one goes last
MapSet(m, key, n) ==
    IF MapHas(m, key)
    THEN [k \in 1..Len(m) |->
            IF m[k].name = key THEN [name |-> key, count |-> n] ELSE m[k]]
    ELSE Append(m, [name |-> key, count |-> n])

\* const key = item.trim(); if (key) map.set(key, (map.get(key) || 0) + 1)
CountItem(m, item) ==
    LET key == Trim(item)
    IN  IF key # <<>> THEN MapSet(m, key, MapGet(m, key) + 1) ELSE m

\* one for-of loop over a list of the reply; threw: a TypeError left the loop
RECURSIVE CountItems(_, _)
CountItems(m, items) ==
    IF items = <<>> THEN [map |-> m, threw |-> FALSE]
    ELSE IF Head(items) = NonString THEN [map |-> m, threw |-> TRUE]
    ELSE CountItems(CountItem(m, Head(items)), Tail(items))

\* the four loops in source order, from category number c on
RECURSIVE CountData(_, _, _)
CountData(maps, data, c) ==
    IF c > Len(Categories) THEN [maps |-> maps, threw |-> FALSE]
    ELSE LET r == CountItems(maps[Categories[c]], data[Categories[c]])
             next == [maps EXCEPT ![Categories[c]] = r.map]
         IN  IF r.threw THEN [maps |-> next, threw |-> TRUE]
             ELSE CountData(next, data, c + 1)

\* where Array.prototype.sort (stable) puts e among the sorted entries s
\* under the comparator (a, b) => b[1] - a[1]
RECURSIVE InsertByCount(_, _)
InsertByCount(s, e) ==
    IF s = <<>> THEN <<e>>
    ELSE IF Head(s).count >= e.count THEN <<Head(s)>> \o InsertByCount(Tail(s), e)
    ELSE <<e>> \o s

\* a variant for comparison: ascending order
RECURSIVE sortMapAscending(_)
sortMapAscending(m) ==
    IF m = <<>> THEN <<>>
    ELSE LET rest == sortMapAscending(SubSeq(m, 1, Len(m) - 1))
             e == m[Len(m)]
             smaller == SelectSeq(rest, LAMBDA x : x.count <= e.count)
             larger == SelectSeq(rest, LAMBDA x : x.count > e.count)
         IN  smaller \o <<e>> \o larger

\* Array.from(map.entries()).sort((a, b) => b[1] - a[1]).map(...)
RECURSIVE sortMap(_)
sortMap(m) ==
    IF m = <<>> THEN <<>>
    ELSE InsertByCount(sortMap(SubSeq(m, 1, Len(m) - 1)), m[Len(m)])

NullResults == [null |-> TRUE]

\* the object handed to setResults
Rankings(maps) ==
    [c \in DOMAIN maps |-> sortMap(maps[c])]

-----------------------------------------------------------------------------
(* The browser page: bounds and the replies of the server.                 *)

MaxArticles == 2        \* articles a scrape can return
MaxScrapeMsgs == 1      \* log/progress messages read in one scrape
MaxExtractRuns == 1     \* download runs started in one session
MaxCancelClicks == 1    \* clicks on a cancel button in one session

Runs == {"scrape", "extract", "analyze"}

\* An article is its title (a number stands for the text) and its pdfUrl,
\* "" when the article has none.
ArticleLists ==
    UNION { { [k \in 1..n |-> [title |-> k, pdfUrl |-> u[k]]] :
                u \in [1..n -> {"", "url"}] } : n \in 0..MaxArticles }

\* What one /api/extract request can come to, seen from the page:
\*   cached, downloaded : success with cached true / false
\*   denied             : success false, error containing 'Access denied'
\*   failed             : success false with another error text
\*   threw              : fetch or res.json() rejects with a network error
ExtractOutcomes == {"cached", "downloaded", "denied", "failed", "threw"}

DataA ==
    [ingredients |-> << <<" ", "c">>, <<"a">>, <<"a", " ">>, <<"b">> >>,
     dishes |-> << <<"x">> >>,
     cookingMethods |-> <<>>,
     seasons |-> << <<" ">> >>]
DataB ==
    [ingredients |-> << <<"b">>, <<"b">> >>,
     dishes |-> << <<"y">>, <<"x">> >>,
     cookingMethods |-> << <<"g">> >>,
     seasons |-> <<>>]
DataBad ==
    [ingredients |-> << <<"a">>, NonString, <<"a">> >>,
     dishes |-> << <<"x">> >>,
     cookingMethods |-> <<>>,
     seasons |-> <<>>]

\* What one /api/analyze request can come to: a reply with success and data,
\* a reply without (success false), or a rejected fetch / res.json().
AnalyzeReplies ==
    { [kind |-> "data", data |-> d] : d \in {DataA, DataB, DataBad} }
    \cup { [kind |-> "fail", data |-> EmptyMaps],
           [kind |-> "threw", data |-> EmptyMaps] }

\* addLog: a log line is its kind, the title it quotes (0: none) and the
\* numbers it quotes
Log(kind, doc, info) == [kind |-> kind, doc |-> doc, info |-> info]

\* An entry of the history of requests: the document asked for, what
\* signal.aborted was when the request was sent, and what the request came
\* to ("pending" until it settles).
Sent(doc, sig) == [doc |-> doc, aborted |-> sig, outcome |-> "pending"]

\* a variant for comparison: every skip is logged
SkipIsLoggedAlways(o) == TRUE

\* if (data.error && !data.error.includes('Access denied')): the skip of a
\* success-false reply is logged
SkipIsLogged(o) == o # "denied"

\* a variant for comparison: the handlers read the signal of a controller nobody aborts
SigAbortedNever(run) == FALSE

\* signal.aborted of the controller the run created
SigAborted(run) == aborted[run]

\* A run is at an await that its signal rejects, and the signal has fired:
\* the rejection is handled before the browser delivers any other event.
Pending ==
    \/ pcScrape \in {"reading", "closing"} /\ aborted["scrape"]
    \/ pcExtract \in {"fetch", "wait"} /\ aborted["extract"]
    \/ pcAnalyze \in {"fetch", "wait"} /\ aborted["analyze"]

InitClientWith(key, list) ==
    /\ step = "idle"
    /\ articles = <<>>
    /\ pdfDataList = list
    /\ results = NullResults
    /\ logs = <<>>
    /\ error = "null"
    /\ apiKey = key
    /\ skippedCount = 0
    /\ abortControllerRef = "null"
    /\ aborted = [r \in Runs |-> FALSE]
    /\ pcScrape = "idle"
    /\ scrapeMsgs = 0
    /\ pcExtract = "idle"
    /\ targets = <<>>
    /\ extractI = 0
    /\ pdfs = <<>>
    /\ cachedCount = 0
    /\ downloadedCount = 0
    /\ skippedLocal = 0
    /\ extractSent = <<>>
    /\ extractEnded = "no"
    /\ extractRuns = 0
    /\ pcAnalyze = "idle"
    /\ analyzePdfs = <<>>
    /\ analyzeI = 0
    /\ countMaps = EmptyMaps
    /\ successCount = 0
    /\ errorCount = 0
    /\ analyzeSent = <<>>
    /\ analyzeOk = <<>>
    /\ analyzeEnded = "no"
    /\ analyzeTimer = 0
    /\ cancelClicks = 0

\* the state of the page after its first render
InitClient == InitClientWith("", <<>>)

-----------------------------------------------------------------------------
(* The user's inputs outside the three stages.                             *)

\* onChange of the key field: setApiKey(e.target.value)
SetApiKey ==
    /\ ~Pending
    /\ \E k \in {"", "key"} : k # apiKey /\ apiKey' = k
    /\ UNCHANGED <<step, articles, pdfDataList, results, logs, error,
                   skippedCount, abortControllerRef, aborted>>
    /\ UNCHANGED <<pureVars, routeVars, scrapeVars, extractVars, analyzeVars, cancelClicks>>
    /\ UNCHANGED lateVars

\* a cancel button is rendered
CancelVisible ==
    \/ step = "scraping" /\ articles = <<>>
    \/ step = "extracting" /\ pdfDataList = <<>>
    \/ step = "analyzing"

handleCancel ==
    /\ CancelVisible
    /\ ~Pending
    /\ cancelClicks < MaxCancelClicks
    /\ cancelClicks' = cancelClicks + 1
    /\ IF abortControllerRef # "null"
       THEN /\ aborted' = [aborted EXCEPT ![abortControllerRef] = TRUE]
            /\ logs' = Append(logs, Log("cancelRequested", 0, <<>>))
       ELSE UNCHANGED <<aborted, logs>>
    /\ UNCHANGED <<step, articles, pdfDataList, results, error, apiKey,
                   skippedCount, abortControllerRef>>
    /\ UNCHANGED <<pureVars, routeVars, scrapeVars, extractVars, analyzeVars>>
    /\ UNCHANGED lateVars

-----------------------------------------------------------------------------
(* handleScrape                                                            *)

ScrapeStart ==
    /\ step = "idle" /\ articles = <<>>      \* the button is rendered, enabled
    /\ ~Pending
    /\ step' = "scraping"
    /\ error' = "null"
    /\ logs' = <<Log("scrapeStart", 0, <<>>)>>
    /\ abortControllerRef' = "scrape"
    /\ aborted' = [aborted EXCEPT !["scrape"] = FALSE]
    /\ pcScrape' = "reading"
    /\ scrapeMsgs' = 0
    /\ UNCHANGED <<articles, pdfDataList, results, apiKey, skippedCount>>
    /\ UNCHANGED <<pureVars, routeVars, extractVars, analyzeVars, cancelClicks>>
    /\ UNCHANGED lateVars

\* a 'log' or 'progress' message is read
ScrapeMessage ==
    /\ pcScrape = "reading" /\ ~SigAborted("scrape")
    /\ scrapeMsgs < MaxScrapeMsgs
    /\ scrapeMsgs' = scrapeMsgs + 1
    /\ logs' = Append(logs, Log("scrapeMessage", 0, <<>>))
    /\ UNCHANGED <<step, articles, pdfDataList, results, error, apiKey,
                   skippedCount, abortControllerRef, aborted, pcScrape>>
    /\ UNCHANGED <<pureVars, routeVars, extractVars, analyzeVars, cancelClicks>>
    /\ UNCHANGED lateVars

\* the 'complete' message is read
ScrapeComplete(arts) ==
    /\ pcScrape = "reading" /\ ~SigAborted("scrape")
    /\ articles' = arts
    /\ logs' = Append(logs, Log("scrapeFound", 0,
          <<Len(arts), Len(SelectSeq(arts, LAMBDA a : a.pdfUrl # ""))>>))
    /\ pcScrape' = "closing"
    /\ UNCHANGED <<step, pdfDataList, results, error, apiKey, skippedCount,
                   abortControllerRef, aborted, scrapeMsgs>>
    /\ UNCHANGED <<pureVars, routeVars, extractVars, analyzeVars, cancelClicks>>
    /\ UNCHANGED lateVars

\* the 'error' message is read
ScrapeErrorMessage ==
    /\ pcScrape = "reading" /\ ~SigAborted("scrape")
    /\ error' = "scrape: server error"
    /\ pcScrape' = "closing"
    /\ UNCHANGED <<step, articles, pdfDataList, results, logs, apiKey,
                   skippedCount, abortControllerRef, aborted, scrapeMsgs>>
    /\ UNCHANGED <<pureVars, routeVars, extractVars, analyzeVars, cancelClicks>>
    /\ UNCHANGED lateVars

\* reader.read() reports done: setStep('idle'), then the finally block
ScrapeDone ==
    /\ pcScrape = "closing" /\ ~SigAborted("scrape")
    /\ step' = "idle"
    /\ abortControllerRef' = "null"
    /\ pcScrape' = "idle"
    /\ UNCHANGED <<articles, pdfDataList, results, logs, error, apiKey,
                   skippedCount, aborted, scrapeMsgs>>
    /\ UNCHANGED <<pureVars, routeVars, extractVars, analyzeVars, cancelClicks>>
    /\ UNCHANGED lateVars

\* fetch or reader.read() rejects with a network error, or there is no body
ScrapeThrows ==
    /\ pcScrape \in {"reading", "closing"} /\ ~SigAborted("scrape")
    /\ error' = "scrape: network error"
    /\ step' = "idle"
    /\ abortControllerRef' = "null"
    /\ pcScrape' = "idle"
    /\ UNCHANGED <<articles, pdfDataList, results, logs, apiKey,
                   skippedCount, aborted, scrapeMsgs>>
    /\ UNCHANGED <<pureVars, routeVars, extractVars, analyzeVars, cancelClicks>>
    /\ UNCHANGED lateVars

\* the signal has fired: the pending await rejects with an AbortError
ScrapeCancelled ==
    /\ pcScrape \in {"reading", "closing"} /\ SigAborted("scrape")
    /\ logs' = Append(logs, Log("scrapeCanceled", 0, <<>>))
    /\ step' = "idle"
    /\ abortControllerRef' = "null"
    /\ pcScrape' = "idle"
    /\ UNCHANGED <<articles, pdfDataList, results, error, apiKey,
                   skippedCount, aborted, scrapeMsgs>>
    /\ UNCHANGED <<pureVars, routeVars, extractVars, analyzeVars, cancelClicks>>
    /\ UNCHANGED lateVars

-----------------------------------------------------------------------------
(* handleExtract                                                           *)

ExtractStart ==
    /\ step = "idle" /\ articles # <<>> /\ pdfDataList = <<>>   \* the button
    /\ ~Pending
    /\ extractRuns < MaxExtractRuns
    /\ LET t == SelectSeq(articles, LAMBDA a : a.pdfUrl # "")
       IN  IF t = <<>>
           THEN /\ error' = "extract: no article has a PDF link"
                /\ UNCHANGED <<step, pdfDataList, logs, skippedCount,
                               abortControllerRef, aborted, extractVars>>
           ELSE /\ abortControllerRef' = "extract"
                /\ aborted' = [aborted EXCEPT !["extract"] = FALSE]
                /\ step' = "extracting"
                /\ pdfDataList' = <<>>
                /\ skippedCount' = 0
                /\ logs' = Append(logs, Log("extractStart", 0, <<Len(t)>>))
                /\ targets' = t
                /\ pdfs' = <<>>
                /\ cachedCount' = 0
                /\ downloadedCount' = 0
                /\ skippedLocal' = 0
                \* i = 0: the signal is new, the first request is sent
                /\ extractI' = 1
                /\ extractSent' = <<Sent(1, FALSE)>>
                /\ pcExtract' = "fetch"
                /\ extractEnded' = "no"
                /\ extractRuns' = extractRuns + 1
                /\ UNCHANGED error
    /\ UNCHANGED <<articles, results, apiKey>>
    /\ UNCHANGED <<pureVars, routeVars, scrapeVars, analyzeVars, cancelClicks>>
    /\ UNCHANGED lateVars

\* a variant for comparison: a request that threw is sent again
ExtractResponseRetry(o) ==
    /\ pcExtract = "fetch" /\ ~SigAborted("extract")
    /\ IF o = "threw"
       THEN /\ extractSent' = Append(
                   [extractSent EXCEPT ![Len(extractSent)].outcome = o],
                   Sent(extractI, aborted["extract"]))
            /\ UNCHANGED <<logs, pdfs, cachedCount, downloadedCount,
                           skippedLocal, pcExtract>>
       ELSE /\ pdfs' = IF o \in {"cached", "downloaded"}
                       THEN Append(pdfs, [title |-> targets[extractI].title])
                       ELSE pdfs
            /\ cachedCount' = cachedCount + (IF o = "cached" THEN 1 ELSE 0)
            /\ downloadedCount' =
                   downloadedCount + (IF o = "downloaded" THEN 1 ELSE 0)
            /\ skippedLocal' =
                   skippedLocal + (IF o \in {"denied", "failed"} THEN 1 ELSE 0)
            /\ logs' = IF o = "downloaded"
                       THEN Append(logs, Log("downloaded", targets[extractI].title, <<>>))
                       ELSE IF o \in {"denied", "failed"} /\ SkipIsLogged(o)
                       THEN Append(logs, Log("skip", targets[extractI].title, <<>>))
                       ELSE logs
            /\ pcExtract' = "wait"
            /\ extractSent' = [extractSent EXCEPT ![Len(extractSent)].outcome = o]
    /\ UNCHANGED <<step, articles, pdfDataList, results, error, apiKey,
                   skippedCount, abortControllerRef, aborted>>
    /\ UNCHANGED <<targets, extractI, extractEnded, extractRuns>>
    /\ UNCHANGED <<pureVars, routeVars, scrapeVars, analyzeVars, cancelClicks>>
    /\ UNCHANGED lateVars

\* a variant for comparison: a request that threw is not counted as skipped
ExtractResponseThrownUncounted(o) ==
    /\ pcExtract = "fetch" /\ ~SigAborted("extract")
    /\ pdfs' = IF o \in {"cached", "downloaded"}
               THEN Append(pdfs, [title |-> targets[extractI].title])
               ELSE pdfs
    /\ cachedCount' = cachedCount + (IF o = "cached" THEN 1 ELSE 0)
    /\ downloadedCount' = downloadedCount + (IF o = "downloaded" THEN 1 ELSE 0)
    /\ skippedLocal' =
           skippedLocal + (IF o \in {"denied", "failed"} THEN 1 ELSE 0)
    /\ logs' = IF o = "downloaded"
               THEN Append(logs, Log("downloaded", targets[extractI].title, <<>>))
               ELSE IF o \in {"denied", "failed"} /\ SkipIsLogged(o)
               THEN Append(logs, Log("skip", targets[extractI].title, <<>>))
               ELSE logs
    /\ pcExtract' = "wait"
    /\ extractSent' = [extractSent EXCEPT ![Len(extractSent)].outcome = o]
    /\ UNCHANGED <<step, articles, pdfDataList, results, error, apiKey,
                   skippedCount, abortControllerRef, aborted>>
    /\ UNCHANGED <<targets, extractI, extractEnded, extractRuns>>
    /\ UNCHANGED <<pureVars, routeVars, scrapeVars, analyzeVars, cancelClicks>>
    /\ UNCHANGED lateVars

\* The request of targets[i] settles before the signal fires: the body of the
\* inner try and its catch; the wait that follows begins.
ExtractResponse(o) ==
    /\ pcExtract = "fetch" /\ ~SigAborted("extract")
    /\ pdfs' = IF o \in {"cached", "downloaded"}
               THEN Append(pdfs, [title |-> targets[extractI].title])
               ELSE pdfs
    /\ cachedCount' = cachedCount + (IF o = "cached" THEN 1 ELSE 0)
    /\ downloadedCount' = downloadedCount + (IF o = "downloaded" THEN 1 ELSE 0)
    /\ skippedLocal' =
           skippedLocal + (IF o \in {"denied", "failed", "threw"} THEN 1 ELSE 0)
    \* a new download is logged, a skip is logged when SkipIsLogged, a cached
    \* PDF and a thrown error are not
    /\ logs' = IF o = "downloaded"
               THEN Append(logs, Log("downloaded", targets[extractI].title, <<>>))
               ELSE IF o \in {"denied", "failed"} /\ SkipIsLogged(o)
               THEN Append(logs, Log("skip", targets[extractI].title, <<>>))
               ELSE logs
    /\ pcExtract' = "wait"
    /\ extractSent' = [extractSent EXCEPT ![Len(extractSent)].outcome = o]
    /\ UNCHANGED <<step, articles, pdfDataList, results, error, apiKey,
                   skippedCount, abortControllerRef, aborted>>
    /\ UNCHANGED <<targets, extractI, extractEnded, extractRuns>>
    /\ UNCHANGED <<pureVars, routeVars, scrapeVars, analyzeVars, cancelClicks>>
    /\ UNCHANGED lateVars

\* a variant for comparison: a cancelled run keeps its PDFs to itself
ExtractCancelledDropsPdfs ==
    /\ pcExtract \in {"fetch", "wait"} /\ SigAborted("extract")
    /\ logs' = Append(logs, Log("extractCanceled", 0,
                   <<cachedCount, downloadedCount, skippedLocal>>))
    /\ pcExtract' = "saving"
    /\ extractEnded' = "cancel"
    /\ UNCHANGED <<step, articles, pdfDataList, skippedCount, results, error,
                   apiKey, abortControllerRef, aborted>>
    /\ UNCHANGED <<targets, extractI, pdfs, cachedCount, downloadedCount,
                   skippedLocal, extractSent, extractRuns>>
    /\ UNCHANGED <<pureVars, routeVars, scrapeVars, analyzeVars, cancelClicks>>
    /\ UNCHANGED lateVars

\* The signal has fired while the request or the wait was pending: the await
\* rejects (AbortError, 'Canceled') and the outer catch publishes what the
\* run holds; checkSavedPdfs is awaited next.
ExtractCancelled ==
    /\ pcExtract \in {"fetch", "wait"} /\ SigAborted("extract")
    /\ logs' = Append(logs, Log("extractCanceled", 0,
                   <<cachedCount, downloadedCount, skippedLocal>>))
    /\ pdfDataList' = pdfs
    /\ skippedCount' = skippedLocal
    /\ pcExtract' = "saving"
    /\ extractEnded' = "cancel"
    /\ UNCHANGED <<step, articles, results, error, apiKey,
                   abortControllerRef, aborted>>
    /\ UNCHANGED <<targets, extractI, pdfs, cachedCount, downloadedCount,
                   skippedLocal, extractSent, extractRuns>>
    /\ UNCHANGED <<pureVars, routeVars, scrapeVars, analyzeVars, cancelClicks>>
    /\ UNCHANGED lateVars

\* The wait ends before the signal fires: i++, and either the next request
\* is sent (the check of signal.aborted at the top of the loop is part of
\* this step) or the loop is over and the run publishes its PDFs.
ExtractAfterWait ==
    /\ pcExtract = "wait" /\ ~SigAborted("extract")
    /\ IF extractI + 1 <= Len(targets)
       THEN /\ extractI' = extractI + 1
            /\ extractSent' = Append(extractSent,
                   Sent(extractI + 1, aborted["extract"]))
            /\ pcExtract' = "fetch"
            /\ UNCHANGED <<pdfDataList, skippedCount, logs, extractEnded>>
       ELSE /\ pdfDataList' = pdfs
            /\ skippedCount' = skippedLocal
            /\ logs' = Append(logs, Log("extractSummary", 0,
                   <<cachedCount, downloadedCount, skippedLocal, Len(pdfs)>>))
            /\ pcExtract' = "saving"
            /\ extractEnded' = "normal"
            /\ UNCHANGED <<extractI, extractSent>>
    /\ UNCHANGED <<step, articles, results, error, apiKey,
                   abortControllerRef, aborted>>
    /\ UNCHANGED <<targets, pdfs, cachedCount, downloadedCount, skippedLocal,
                   extractRuns>>
    /\ UNCHANGED <<pureVars, routeVars, scrapeVars, analyzeVars, cancelClicks>>
    /\ UNCHANGED lateVars

\* checkSavedPdfs has returned: the finally block
ExtractFinally ==
    /\ pcExtract = "saving"
    /\ step' = "idle"
    /\ abortControllerRef' = "null"
    /\ pcExtract' = "done"
    /\ UNCHANGED <<articles, pdfDataList, results, logs, error, apiKey,
                   skippedCount, aborted>>
    /\ UNCHANGED <<targets, extractI, pdfs, cachedCount, downloadedCount,
                   skippedLocal, extractSent, extractEnded, extractRuns>>
    /\ UNCHANGED <<pureVars, routeVars, scrapeVars, analyzeVars, cancelClicks>>
    /\ UNCHANGED lateVars

-----------------------------------------------------------------------------
(* handleAnalyze                                                           *)

AnalyzeStart ==
    /\ step = "idle" /\ pdfDataList # <<>>      \* the button is enabled
    /\ ~Pending
    /\ IF apiKey = ""
       THEN /\ error' = "analyze: no API key"
            /\ UNCHANGED <<step, logs, abortControllerRef, aborted, analyzeVars>>
       ELSE IF Len(pdfDataList) = 0
       THEN /\ error' = "analyze: no PDF"
            /\ UNCHANGED <<step, logs, abortControllerRef, aborted, analyzeVars>>
       ELSE /\ abortControllerRef' = "analyze"
            /\ aborted' = [aborted EXCEPT !["analyze"] = FALSE]
            /\ step' = "analyzing"
            /\ logs' = Append(logs, Log("analyzeStart", 0, <<Len(pdfDataList)>>))
            /\ analyzePdfs' = pdfDataList
            /\ countMaps' = EmptyMaps
            /\ successCount' = 0
            /\ errorCount' = 0
            /\ analyzeOk' = <<>>
            /\ analyzeEnded' = "no"
            \* i = 0: the signal is new, the first request is sent
            /\ analyzeI' = 1
            /\ analyzeSent' = <<Sent(1, FALSE)>>
            /\ pcAnalyze' = "fetch"
            /\ analyzeTimer' = 0
            /\ UNCHANGED error
    /\ UNCHANGED <<articles, pdfDataList, results, apiKey, skippedCount>>
    /\ UNCHANGED <<pureVars, routeVars, scrapeVars, extractVars, cancelClicks>>
    /\ UNCHANGED lateVars

\* setTimeout(() => resolve(), 1000)
AnalyzeWaitMs == 1000

\* the step of the clock
TickMs == AnalyzeWaitMs \div 2

\* a variant for comparison: a shorter wait after a document that failed
AnalyzeWaitTimeShortOnFailure(kind) ==
    IF kind = "data" THEN AnalyzeWaitMs ELSE AnalyzeWaitMs - TickMs

\* lines 420-427: the wait is the same whatever became of the request
AnalyzeWaitTime(kind) == AnalyzeWaitMs

\* The request of pdfDataList[i] settles before the signal fires: the body of
\* the inner try and its catch; the one-second wait begins.
AnalyzeResponse(r) ==
    /\ pcAnalyze = "fetch" /\ ~SigAborted("analyze")
    /\ LET doc == analyzePdfs[analyzeI].title
           counted == CountData(countMaps, r.data, 1)
       IN  IF r.kind = "data"
           THEN \* data.success && data.data: the four loops; a TypeError in
                \* them is caught by the inner catch
                /\ countMaps' = counted.maps
                /\ IF counted.threw
                   THEN /\ errorCount' = errorCount + 1
                        /\ logs' = Append(logs, Log("error", doc, <<>>))
                        /\ UNCHANGED <<successCount, analyzeOk>>
                   ELSE /\ successCount' = successCount + 1
                        /\ logs' = Append(logs,
                               Log("analyzed", doc, <<analyzeI, Len(analyzePdfs)>>))
                        /\ analyzeOk' = Append(analyzeOk, r.data)
                        /\ UNCHANGED errorCount
           ELSE /\ errorCount' = errorCount + 1
                /\ logs' = Append(logs,
                       Log(IF r.kind = "fail" THEN "skip" ELSE "error", doc, <<>>))
                /\ UNCHANGED <<countMaps, successCount, analyzeOk>>
    /\ pcAnalyze' = "wait"
    /\ analyzeTimer' = AnalyzeWaitTime(r.kind)
    /\ analyzeSent' = [analyzeSent EXCEPT ![Len(analyzeSent)].outcome = r.kind]
    /\ UNCHANGED <<step, articles, pdfDataList, results, error, apiKey,
                   skippedCount, abortControllerRef, aborted>>
    /\ UNCHANGED <<analyzePdfs, analyzeI, analyzeEnded>>
    /\ UNCHANGED <<pureVars, routeVars, scrapeVars, extractVars, cancelClicks>>
    /\ UNCHANGED lateVars

\* Time passes while the timer of the wait runs.
AnalyzeTick ==
    /\ pcAnalyze = "wait" /\ ~SigAborted("analyze")
    /\ analyzeTimer > 0
    /\ analyzeTimer' = IF analyzeTimer > TickMs THEN analyzeTimer - TickMs ELSE 0
    /\ UNCHANGED <<pcAnalyze, analyzePdfs, analyzeI, countMaps, successCount,
                   errorCount, analyzeSent, analyzeOk, analyzeEnded>>
    /\ UNCHANGED <<homeVars, scrapeVars, extractVars, cancelClicks>>
    /\ UNCHANGED <<pureVars, routeVars>>
    /\ UNCHANGED lateVars

\* a variant for comparison: a cancelled run goes back to idle without a report
AnalyzeCancelledNoReport ==
    /\ pcAnalyze \in {"fetch", "wait"} /\ SigAborted("analyze")
    /\ logs' = Append(logs, Log("analyzeCanceled", 0, <<successCount>>))
    /\ step' = "idle"
    /\ abortControllerRef' = "null"
    /\ pcAnalyze' = "done"
    /\ analyzeTimer' = 0
    /\ analyzeEnded' = "cancel"
    /\ UNCHANGED <<articles, pdfDataList, results, error, apiKey, skippedCount,
                   aborted>>
    /\ UNCHANGED <<analyzePdfs, analyzeI, countMaps, successCount, errorCount,
                   analyzeSent, analyzeOk>>
    /\ UNCHANGED <<pureVars, routeVars, scrapeVars, extractVars, cancelClicks>>
    /\ UNCHANGED lateVars

\* The signal has fired while the request or the wait was pending: the await
\* rejects (AbortError, 'Canceled'), the outer catch publishes the rankings of
\* what has been counted, then the finally block.
AnalyzeCancelled ==
    /\ pcAnalyze \in {"fetch", "wait"} /\ SigAborted("analyze")
    /\ logs' = Append(logs, Log("analyzeCanceled", 0, <<successCount>>))
    /\ results' = Rankings(countMaps)
    /\ step' = "complete"
    /\ abortControllerRef' = "null"
    /\ pcAnalyze' = "done"
    /\ analyzeTimer' = 0
    /\ analyzeEnded' = "cancel"
    /\ UNCHANGED <<articles, pdfDataList, error, apiKey, skippedCount, aborted>>
    /\ UNCHANGED <<analyzePdfs, analyzeI, countMaps, successCount, errorCount,
                   analyzeSent, analyzeOk>>
    /\ UNCHANGED <<pureVars, routeVars, scrapeVars, extractVars, cancelClicks>>
    /\ UNCHANGED lateVars

\* The wait ends before the signal fires: i++, and either the next request
\* is sent (the check of signal.aborted at the top of the loop is part of
\* this step) or the loop is over: the rankings are published, then the
\* finally block.
AnalyzeAfterWait ==
    /\ pcAnalyze = "wait" /\ ~SigAborted("analyze")
    /\ analyzeTimer = 0
    /\ IF analyzeI + 1 <= Len(analyzePdfs)
       THEN /\ analyzeI' = analyzeI + 1
            /\ analyzeSent' = Append(analyzeSent,
                   Sent(analyzeI + 1, aborted["analyze"]))
            /\ pcAnalyze' = "fetch"
            /\ UNCHANGED <<results, logs, step, abortControllerRef, analyzeEnded>>
       ELSE /\ results' = Rankings(countMaps)
            /\ logs' = Append(logs, Log("analyzeDone", 0, <<successCount, errorCount>>))
            /\ step' = "complete"
            /\ abortControllerRef' = "null"
            /\ pcAnalyze' = "done"
            /\ analyzeEnded' = "normal"
            /\ UNCHANGED <<analyzeI, analyzeSent>>
    /\ UNCHANGED <<articles, pdfDataList, error, apiKey, skippedCount, aborted>>
    /\ UNCHANGED <<analyzePdfs, countMaps, successCount, errorCount, analyzeOk,
                   analyzeTimer>>
    /\ UNCHANGED <<pureVars, routeVars, scrapeVars, extractVars, cancelClicks>>
    /\ UNCHANGED lateVars

-----------------------------------------------------------------------------
(* POST /api/extract (extract/route.ts): the handler, one instance per     *)
(* request.  Instances interleave at their awaits.  The conversion of the  *)
(* Drive URL (line 83) does not change which branch is taken and is        *)
(* checked on its own above.  A save that fails is one where mkdir or      *)
(* writeFile rejects before the file is touched.                           *)

Unset == [unset |-> TRUE]

MaxRequests == 2        \* requests received by /api/extract

Requests == 1..MaxRequests

\* titles of articles; the first two differ only in a character that
\* sanitizeFilename rewrites
RouteTitles == { <<"a", " ", "b">>, <<"a", "_", "b">>, <<"c">> }

\* pdfUrl of the request body; "" is a body without one
PdfUrls == {"", "url"}

\* const filename = sanitizeFilename(title) + '.pdf'
CacheFilename(t) == sanitizeFilename(t) \o <<".", "p", "d", "f">>

CacheFilenames == { CacheFilename(t) : t \in RouteTitles }

NoFile == [none |-> TRUE]

\* the bodies a remote server can send
BodyBytes == { <<1>>, <<2, 3>> }

\* buffer.toString('base64')
Base64(b) == [base64 |-> b]

NoReply == [kind |-> "none"]

Thrown == [kind |-> "throws"]

\* what the first fetch can come back with: an HTML page, with or without
\* an access-denied phrase and a confirm link, or a body of another type
FirstReplies ==
    {Thrown}
    \cup [kind : {"reply"}, ok : BOOLEAN, ctype : {"text/html"},
          denied : BOOLEAN, confirm : BOOLEAN, bytes : {<<>>}]
    \cup [kind : {"reply"}, ok : BOOLEAN,
          ctype : {"application/pdf", "image/png"},
          denied : {FALSE}, confirm : {FALSE}, bytes : BodyBytes]

\* what the fetch of the confirm link can come back with
ConfirmReplies ==
    {Thrown}
    \cup [kind : {"reply"}, ok : BOOLEAN,
          ctype : {"text/html", "application/pdf", "application/octet-stream"},
          denied : {FALSE}, confirm : {FALSE}, bytes : {<<2, 3>>}]

NoResp == [status |-> 0]

\* NextResponse.json({ success: false, error, skipped: true })
SkipResp(err) ==
    [status |-> 200, success |-> FALSE, skipped |-> TRUE, cached |-> FALSE,
     error |-> err]

\* NextResponse.json({ success: true, title, pdfBase64, size, ..., cached })
PdfResp(t, bytes, isCached) ==
    [status |-> 200, success |-> TRUE, skipped |-> FALSE, cached |-> isCached,
     error |-> "", title |-> t, pdfBase64 |-> Base64(bytes),
     size |-> Len(bytes), filename |-> CacheFilename(t)]

NewReq ==
    [pc |-> "new", title |-> <<>>, pdfUrl |-> "", present |-> NoFile,
     seen |-> NoFile, readOk |-> TRUE, first |-> NoReply, second |-> NoReply,
     fetches |-> 0, buffer |-> <<>>, wrote |-> FALSE, resp |-> NoResp]

\* a variant for comparison: the confirm link is looked for before the
\* access-denied phrases
HtmlVerdictConfirmFirst(o) ==
    IF o.confirm THEN "confirm" ELSE IF o.denied THEN "denied" ELSE "html"

\* lines 114-152: the access-denied phrases are looked for first, then the
\* confirm link
HtmlVerdict(o) ==
    IF o.denied THEN "denied" ELSE IF o.confirm THEN "confirm" ELSE "html"

\* a variant for comparison: any OK confirm response is saved
ConfirmIsPdfAnyType(o) == o.kind = "reply" /\ o.ok

\* lines 139-141: confirmResponse.ok and a PDF or octet-stream content type
ConfirmIsPdf(o) ==
    /\ o.kind = "reply" /\ o.ok
    /\ o.ctype \in {"application/pdf", "application/octet-stream"}

\* a variant for comparison: the cache is never looked at
CachedFileNever(f) == NoFile

\* line 59: fileExists(filepath)
CachedFile(f) == downloads[f]

\* The request arrives: the body is read; without pdfUrl the answer is 400.
RouteArrive(r, t, u) ==
    /\ reqs[r].pc = "new"
    /\ \A q \in Requests : q < r => reqs[q].pc # "new"
    /\ reqs' = [reqs EXCEPT ![r] =
          IF u = ""
          THEN [@ EXCEPT !.pc = "done", !.title = t, !.pdfUrl = u,
                         !.present = downloads[CacheFilename(t)],
                         !.resp = [status |-> 400, success |-> FALSE,
                                   skipped |-> FALSE, cached |-> FALSE,
                                   error |-> "PDF URL is required"]]
          ELSE [@ EXCEPT !.pc = "check", !.title = t, !.pdfUrl = u,
                         !.present = downloads[CacheFilename(t)]]]
    /\ UNCHANGED <<downloads, aReq, aResp, pageTitle, pageBody, artDate,
                   reportFile>>
    /\ UNCHANGED <<pureVars, clientVars>>
    /\ UNCHANGED lateVars

\* lines 59-96: the cached file is returned if it exists and can be read;
\* otherwise the download is started.
RouteCheckCache(r, readable) ==
    /\ reqs[r].pc = "check"
    /\ LET f == CachedFile(CacheFilename(reqs[r].title))
       IN  /\ f = NoFile => readable
           /\ reqs' = [reqs EXCEPT ![r] =
                 IF f # NoFile /\ readable
                 THEN [@ EXCEPT !.pc = "done", !.seen = f, !.readOk = TRUE,
                                !.resp = PdfResp(reqs[r].title, f.bytes, TRUE)]
                 ELSE [@ EXCEPT !.pc = "fetch1", !.seen = f,
                                !.readOk = readable, !.fetches = 1]]
    /\ UNCHANGED <<downloads, aReq, aResp, pageTitle, pageBody, artDate,
                   reportFile>>
    /\ UNCHANGED <<pureVars, clientVars>>
    /\ UNCHANGED lateVars

\* lines 98-157: the first response
RouteFirstResponse(r, o) ==
    /\ reqs[r].pc = "fetch1"
    /\ reqs' = [reqs EXCEPT ![r] =
          IF o.kind = "throws"
          THEN [@ EXCEPT !.pc = "done", !.first = o,
                         !.resp = SkipResp("thrown")]
          ELSE IF ~o.ok
          THEN [@ EXCEPT !.pc = "done", !.first = o,
                         !.resp = SkipResp("Failed to download PDF")]
          ELSE IF o.ctype = "text/html"
          THEN IF HtmlVerdict(o) = "denied"
               THEN [@ EXCEPT !.pc = "done", !.first = o,
                              !.resp = SkipResp("Access denied")]
               ELSE IF HtmlVerdict(o) = "confirm"
               THEN [@ EXCEPT !.pc = "confirm", !.first = o,
                              !.fetches = @ + 1]
               ELSE [@ EXCEPT !.pc = "done", !.first = o,
                              !.resp = SkipResp("Received HTML instead of PDF")]
          ELSE [@ EXCEPT !.pc = "save", !.first = o, !.buffer = o.bytes]]
    /\ UNCHANGED <<downloads, aReq, aResp, pageTitle, pageBody, artDate,
                   reportFile>>
    /\ UNCHANGED <<pureVars, clientVars>>
    /\ UNCHANGED lateVars

\* lines 133-152: the response to the confirm link
RouteConfirmResponse(r, o) ==
    /\ reqs[r].pc = "confirm"
    /\ reqs' = [reqs EXCEPT ![r] =
          IF o.kind = "throws"
          THEN [@ EXCEPT !.pc = "done", !.second = o,
                         !.resp = SkipResp("thrown")]
          ELSE IF ConfirmIsPdf(o)
          THEN [@ EXCEPT !.pc = "save", !.second = o, !.buffer = o.bytes]
          ELSE [@ EXCEPT !.pc = "done", !.second = o,
                         !.resp = SkipResp("Received HTML instead of PDF")]]
    /\ UNCHANGED <<downloads, aReq, aResp, pageTitle, pageBody, artDate,
                   reportFile>>
    /\ UNCHANGED <<pureVars, clientVars>>
    /\ UNCHANGED lateVars

\* savePdfAndRespond (lines 169-198).  written is what writeFile did: -1 when
\* mkdir or the opening of the file failed, so that nothing changed; the
\* number of bytes that reached the file otherwise.  writeFile opens the file
\* with flag 'w', which creates or empties it, and a write that fails later
\* (disk full, I/O error) leaves what was written so far; the catch answers
\* 'Failed to save PDF' and does not remove the file.
RouteSave(r, written) ==
    /\ reqs[r].pc = "save"
    /\ written <= Len(reqs[r].buffer)
    /\ LET t == reqs[r].title
           b == reqs[r].buffer
       IN  IF written = Len(b)
           THEN /\ downloads' = [downloads EXCEPT ![CacheFilename(t)] =
                       [bytes |-> b, savedFor |-> t]]
                /\ reqs' = [reqs EXCEPT ![r] =
                       [@ EXCEPT !.pc = "done", !.wrote = TRUE,
                                 !.resp = PdfResp(t, b, FALSE)]]
           ELSE /\ downloads' =
                       IF written < 0 THEN downloads
                       ELSE [downloads EXCEPT ![CacheFilename(t)] =
                               [bytes |-> SubSeq(b, 1, written), savedFor |-> t]]
                /\ reqs' = [reqs EXCEPT ![r] =
                       [@ EXCEPT !.pc = "done",
                                 !.resp = SkipResp("Failed to save PDF")]]
    /\ UNCHANGED <<aReq, aResp, pageTitle, pageBody, artDate, reportFile>>
    /\ UNCHANGED <<pureVars, clientVars>>
    /\ UNCHANGED lateVars

NextExtractRoute ==
    \/ \E r \in Requests, t \in RouteTitles, u \in PdfUrls : RouteArrive(r, t, u)
    \/ \E r \in Requests, readable \in BOOLEAN : RouteCheckCache(r, readable)
    \/ \E r \in Requests, o \in FirstReplies : RouteFirstResponse(r, o)
    \/ \E r \in Requests, o \in ConfirmReplies : RouteConfirmResponse(r, o)
    \/ \E r \in Requests :
         \E written \in -1..Len(reqs[r].buffer) : RouteSave(r, written)

-----------------------------------------------------------------------------
(* POST /api/analyze (analyze/route.ts).  The model's reply is a text made *)
(* of pieces: the two braces, members of a JSON object ("i" stands for     *)
(* "ingredients":["a"], "d" for "dishes":["x"]) and prose without braces   *)
(* ("t").                                                                  *)

MaxReplyPieces == 4     \* pieces of the text the model replies with

ReplyPieces == {"{", "}", "i", "d", "t"}

MemberPieces == {"i", "d"}

NoPdf == [absent |-> TRUE]

ModelThrows == <<"<generateContent rejects>">>

AnalyzeRequests ==
    [pdf : {NoPdf, [title |-> 1, pdfBase64 |-> ""],
                   [title |-> 1, pdfBase64 |-> "JVBERi0="]},
     apiKey : {"", "key"},
     reply : SeqsUpTo(ReplyPieces, MaxReplyPieces) \cup {ModelThrows}]

NoMatch == <<"<no match>">>

SyntaxError == [threw |-> "SyntaxError"]

\* responseText.match(/\{[\s\S]*\}/): from the leftmost brace that has a
\* closing brace after it, as far as the last closing brace
MatchBraces(s) ==
    LET opens == {p \in 1..Len(s) : s[p] = "{"}
        closes == {p \in 1..Len(s) : s[p] = "}"}
        starts == {p \in opens : \E q \in closes : q > p}
    IN  IF starts = {} THEN NoMatch
        ELSE LET a == CHOOSE p \in starts : \A q \in starts : p <= q
                 b == CHOOSE p \in closes : \A q \in closes : q <= p
             IN  SubSeq(s, a, b)

\* JSON.parse of a matched span: an object of members, or a SyntaxError
JsonParse(span) ==
    IF /\ Len(span) >= 2
       /\ span[1] = "{" /\ span[Len(span)] = "}"
       /\ \A p \in 2..(Len(span) - 1) : span[p] \in MemberPieces
    THEN [ingredients |-> IF \E p \in 1..Len(span) : span[p] = "i"
                          THEN <<"a">> ELSE NoValue,
          dishes |-> IF \E p \in 1..Len(span) : span[p] = "d"
                     THEN <<"x">> ELSE NoValue,
          cookingMethods |-> NoValue,
          seasons |-> NoValue]
    ELSE SyntaxError

\* parsed.<list> || []
OrEmpty(v) == IF v = NoValue THEN <<>> ELSE v

\* a variant for comparison: only the PDF is looked at before the model is
\* called
MissingFieldPdfOnly(req) ==
    IF req.pdf = NoPdf \/ req.pdf.pdfBase64 = "" THEN "pdf" ELSE "none"

\* lines 29-41: the two checks of the body
MissingField(req) ==
    IF req.pdf = NoPdf \/ req.pdf.pdfBase64 = "" THEN "pdf"
    ELSE IF req.apiKey = "" THEN "apiKey"
    ELSE "none"

\* the handler: the response, and whether generateContent was called
AnalyzeRoute(req) ==
    IF MissingField(req) # "none"
    THEN [status |-> 400, success |-> FALSE, error |-> MissingField(req),
          modelCalled |-> FALSE]
    ELSE IF req.reply = ModelThrows
    THEN [status |-> 500, success |-> FALSE, error |-> "thrown",
          modelCalled |-> TRUE]
    ELSE IF MatchBraces(req.reply) = NoMatch
    THEN [status |-> 200, success |-> FALSE, error |-> "no JSON",
          modelCalled |-> TRUE]
    ELSE LET parsed == JsonParse(MatchBraces(req.reply))
         IN  IF parsed = SyntaxError
             THEN [status |-> 500, success |-> FALSE, error |-> "thrown",
                   modelCalled |-> TRUE]
             ELSE [status |-> 200, success |-> TRUE, error |-> "",
                   modelCalled |-> TRUE, title |-> req.pdf.title,
                   data |-> [ingredients |-> OrEmpty(parsed.ingredients),
                             dishes |-> OrEmpty(parsed.dishes),
                             cookingMethods |-> OrEmpty(parsed.cookingMethods),
                             seasons |-> OrEmpty(parsed.seasons)]]

CallAnalyzeRoute ==
    /\ aReq # Unset /\ aResp = Unset
    /\ aResp' = AnalyzeRoute(aReq)
    /\ UNCHANGED <<downloads, reqs, aReq, pageTitle, pageBody, artDate,
                   reportFile>>
    /\ UNCHANGED <<pureVars, clientVars>>
    /\ UNCHANGED lateVars

-----------------------------------------------------------------------------
(* fetchArticleDetails (scrape/route.ts): the date of an article.  The     *)
(* page is its h1 text followed by the rest of its markup; pageBody is     *)
(* NoValue when fetchPage returned null.                                   *)

MaxFragments == 2       \* fragments in the h1 text and in the rest of a page

\* the value of match() when the pattern is not found
NoGroups == [none |-> TRUE]

Digits == {"0", "1", "2", "3", "4", "5", "6", "7", "8", "9"}

Nen == "nen"        \* the year sign
Gatsu == "gatsu"    \* the month sign
Nichi == "nichi"    \* the day sign
Gou == "gou"        \* the issue sign

\* pieces of text a page is made of
Fragments ==
    { <<"2", "0", "2", "4", Nen, "1", Gatsu, Gou>>,
      <<"2", "0", "2", "3", Nen, "1", "2", Gatsu, "5", Nichi>>,
      <<"2", "0", "2", "4", Nen, "3", Gatsu, "1", "4", Nichi>>,
      <<"2", "4", Nen, "1", Gatsu, "5", Nichi>>,
      <<"2", "0", "2", "4", Nen, "1", "2", "3", Gatsu, "5", Nichi>>,
      <<"9">>,
      <<"x">> }

Texts == { Concat(fs) : fs \in SeqsUpTo(Fragments, MaxFragments) }

\* the markup between the h1 text and the rest of the page
TagBreak == <<"<">>

\* the number of digits at s[p], s[p+1], ..., at most n
DigitRun(s, p, n) ==
    LET ks == {k \in 0..n : \A j \in 0..(k - 1) :
                  p + j <= Len(s) /\ s[p + j] \in Digits}
    IN  CHOOSE k \in ks : \A j \in ks : j <= k

\* (\d{4})<nen>(\d{1,2})<gatsu> at position p: the groups, or NoGroups.  The {1,2} is
\* greedy and gives a digit back if the month sign does not follow.
MatchYearMonthAt(s, p) ==
    IF DigitRun(s, p, 4) = 4 /\ HasAt(s, p + 4, <<Nen>>)
    THEN LET n == DigitRun(s, p + 5, 2)
             fits == {k \in 1..n : HasAt(s, p + 5 + k, <<Gatsu>>)}
         IN  IF fits = {} THEN NoGroups
             ELSE LET k == CHOOSE x \in fits : \A y \in fits : y <= x
                  IN  [year |-> SubSeq(s, p, p + 3),
                       month |-> SubSeq(s, p + 5, p + 4 + k),
                       next |-> p + 6 + k]
    ELSE NoGroups

\* html.match(/(\d{4})<nen>(\d{1,2})<gatsu>(\d{1,2})<nichi>/) tried at position p
MatchDateAt(s, p) ==
    LET ym == MatchYearMonthAt(s, p)
    IN  IF ym = NoGroups THEN NoGroups
        ELSE LET n == DigitRun(s, ym.next, 2)
                 fits == {k \in 1..n : HasAt(s, ym.next + k, <<Nichi>>)}
             IN  IF fits = {} THEN NoGroups
                 ELSE LET k == CHOOSE x \in fits : \A y \in fits : y <= x
                      IN  [year |-> ym.year, month |-> ym.month,
                           day |-> SubSeq(s, ym.next, ym.next + k - 1)]

\* article.title.match(/(\d{4})<nen>(\d{1,2})<gatsu><gou>/) tried at position p
MatchIssueAt(s, p) ==
    LET ym == MatchYearMonthAt(s, p)
    IN  IF ym # NoGroups /\ HasAt(s, ym.next, <<Gou>>) THEN ym ELSE NoGroups

\* the leftmost match
MatchDate(s) ==
    LET ps == {p \in 1..Len(s) : MatchDateAt(s, p) # NoGroups}
    IN  IF ps = {} THEN NoGroups
        ELSE MatchDateAt(s, CHOOSE p \in ps : \A q \in ps : p <= q)

MatchIssue(s) ==
    LET ps == {p \in 1..Len(s) : MatchIssueAt(s, p) # NoGroups}
    IN  IF ps = {} THEN NoGroups
        ELSE MatchIssueAt(s, CHOOSE p \in ps : \A q \in ps : p <= q)

\* padStart(2, '0')
PadStart2(d) == IF Len(d) < 2 THEN Repeat("0", 2 - Len(d)) \o d ELSE d

\* a variant for comparison: the issue label is looked at last and wins
ArticleDateIssueWins(t, body) ==
    IF body = NoValue THEN <<>>
    ELSE IF MatchIssue(t) # NoGroups
    THEN MatchIssue(t).year \o <<"-">> \o PadStart2(MatchIssue(t).month)
         \o <<"-", "0", "1">>
    ELSE IF MatchDate(t \o TagBreak \o body) # NoGroups
    THEN LET m == MatchDate(t \o TagBreak \o body)
         IN  m.year \o <<"-">> \o PadStart2(m.month) \o <<"-">> \o PadStart2(m.day)
    ELSE <<>>

\* lines 31-39 and 87-95: article.date of the page with h1 text t
ArticleDate(t, body) ==
    IF body = NoValue THEN <<>>
    ELSE LET dateMatch == MatchDate(t \o TagBreak \o body)
             issueMatch == MatchIssue(t)
             date == IF dateMatch # NoGroups
                     THEN dateMatch.year \o <<"-">> \o PadStart2(dateMatch.month)
                          \o <<"-">> \o PadStart2(dateMatch.day)
                     ELSE <<>>
         IN  IF issueMatch # NoGroups /\ date = <<>>
             THEN issueMatch.year \o <<"-">> \o PadStart2(issueMatch.month)
                  \o <<"-", "0", "1">>
             ELSE date

CallFetchArticleDetails ==
    /\ artDate = NoValue
    /\ artDate' = ArticleDate(pageTitle, pageBody)
    /\ UNCHANGED <<downloads, reqs, aReq, aResp, pageTitle, pageBody,
                   reportFile>>
    /\ UNCHANGED <<pureVars, clientVars>>
    /\ UNCHANGED lateVars

-----------------------------------------------------------------------------
(* downloadReportAsJson and loadReportFromJson (part_001).  A JSON text is *)
(* its sequence of tokens; white space is left out.  A JSON value is a     *)
(* record [obj], [arr], [str], [num] or [lit]; the members of an object    *)
(* are kept in insertion order.                                            *)

MaxLoads == 3           \* report files loaded with success in one session

P(c) == [p |-> c]

Str(s) == [str |-> s]

Num(n) == [num |-> n]

Lit(l) == [lit |-> l]

Undefined == [undefined |-> TRUE]

IsObj(v) == DOMAIN v = {"obj"}
IsArr(v) == DOMAIN v = {"arr"}
IsStr(v) == DOMAIN v = {"str"}
IsNum(v) == DOMAIN v = {"num"}

KGeneratedAt == <<"generatedAt">>
KName == <<"name">>
KCount == <<"count">>

\* the key of a category in a report
KeyOf(c) == <<c>>

\* JSON.stringify
RECURSIVE JSONstringify(_)
RECURSIVE StringifyElems(_)
RECURSIVE StringifyMembers(_)
StringifyElems(vs) ==
    IF vs = <<>> THEN <<>>
    ELSE JSONstringify(Head(vs))
         \o (IF Len(vs) > 1 THEN <<P(",")>> ELSE <<>>)
         \o StringifyElems(Tail(vs))

StringifyMembers(ms) ==
    IF ms = <<>> THEN <<>>
    ELSE <<Str(Head(ms).k), P(":")>> \o JSONstringify(Head(ms).v)
         \o (IF Len(ms) > 1 THEN <<P(",")>> ELSE <<>>)
         \o StringifyMembers(Tail(ms))

JSONstringify(v) ==
    IF IsObj(v) THEN <<P("{")>> \o StringifyMembers(v.obj) \o <<P("}")>>
    ELSE IF IsArr(v) THEN <<P("[")>> \o StringifyElems(v.arr) \o <<P("]")>>
    ELSE <<v>>

\* obj[k] = v on the members of an object: a repeated key keeps its place
\* and takes the new value
SetMember(ms, k, v) ==
    IF \E i \in 1..Len(ms) : ms[i].k = k
    THEN [i \in 1..Len(ms) |-> IF ms[i].k = k THEN [k |-> k, v |-> v] ELSE ms[i]]
    ELSE Append(ms, [k |-> k, v |-> v])

ParseFail == [ok |-> FALSE]

TokenAt(ts, p, c) == p <= Len(ts) /\ ts[p] = P(c)

\* JSON.parse, by recursive descent: the value that starts at token p and
\* the place after it
RECURSIVE ParseValue(_, _)
RECURSIVE ParseElems(_, _, _)
RECURSIVE ParseMembers(_, _, _)
ParseElems(ts, p, acc) ==
    IF acc = <<>> /\ TokenAt(ts, p, "]")
    THEN [ok |-> TRUE, val |-> [arr |-> <<>>], next |-> p + 1]
    ELSE LET r == ParseValue(ts, p)
         IN  IF ~r.ok THEN ParseFail
             ELSE IF TokenAt(ts, r.next, ",")
             THEN ParseElems(ts, r.next + 1, Append(acc, r.val))
             ELSE IF TokenAt(ts, r.next, "]")
             THEN [ok |-> TRUE, val |-> [arr |-> Append(acc, r.val)],
                   next |-> r.next + 1]
             ELSE ParseFail

ParseMembers(ts, p, acc) ==
    IF acc = <<>> /\ TokenAt(ts, p, "}")
    THEN [ok |-> TRUE, val |-> [obj |-> <<>>], next |-> p + 1]
    ELSE IF p <= Len(ts) /\ IsStr(ts[p]) /\ TokenAt(ts, p + 1, ":")
    THEN LET r == ParseValue(ts, p + 2)
         IN  IF ~r.ok THEN ParseFail
             ELSE IF TokenAt(ts, r.next, ",")
             THEN ParseMembers(ts, r.next + 1, SetMember(acc, ts[p].str, r.val))
             ELSE IF TokenAt(ts, r.next, "}")
             THEN [ok |-> TRUE, val |-> [obj |-> SetMember(acc, ts[p].str, r.val)],
                   next |-> r.next + 1]
             ELSE ParseFail
    ELSE ParseFail

ParseValue(ts, p) ==
    IF p > Len(ts) THEN ParseFail
    ELSE IF TokenAt(ts, p, "[") THEN ParseElems(ts, p + 1, <<>>)
    ELSE IF TokenAt(ts, p, "{") THEN ParseMembers(ts, p + 1, <<>>)
    ELSE IF DOMAIN ts[p] = {"p"} THEN ParseFail
    ELSE [ok |-> TRUE, val |-> ts[p], next |-> p + 1]

JSONparse(ts) ==
    LET r == ParseValue(ts, 1)
    IN  IF r.ok /\ r.next = Len(ts) + 1 THEN r.val ELSE SyntaxError

\* json.k of a parsed value that is not null
Prop(v, k) ==
    IF IsObj(v) /\ \E i \in 1..Len(v.obj) : v.obj[i].k = k
    THEN v.obj[CHOOSE i \in 1..Len(v.obj) : v.obj[i].k = k].v
    ELSE Undefined

\* the truth value JavaScript gives a value in a condition
Truthy(v) ==
    /\ v # Undefined
    /\ v \notin {Lit("null"), Lit("false"), Num(0), Str(<<>>)}

\* one entry { name, count } of a ranking
IsEntry(v) ==
    /\ IsObj(v)
    /\ {v.obj[i].k : i \in 1..Len(v.obj)} = {KName, KCount}
    /\ IsStr(Prop(v, KName)) /\ IsNum(Prop(v, KCount))

IsRankingValue(v) == IsArr(v) /\ \A i \in 1..Len(v.arr) : IsEntry(v.arr[i])

\* a ranking of results as a JavaScript value, and back; a value that is
\* not a list of entries is kept as it is
ToJs(ranking) ==
    IF Len(ranking) = 1 /\ DOMAIN ranking[1] = {"raw"} THEN ranking[1].raw
    ELSE [arr |-> [i \in 1..Len(ranking) |->
                    [obj |-> << [k |-> KName, v |-> Str(ranking[i].name)],
                                [k |-> KCount, v |-> Num(ranking[i].count)] >>]]]

FromJs(v) ==
    IF IsRankingValue(v)
    THEN [i \in 1..Len(v.arr) |->
            [name |-> Prop(v.arr[i], KName).str,
             count |-> Prop(v.arr[i], KCount).num]]
    ELSE << [raw |-> v] >>

CategoryNames == {Categories[k] : k \in 1..Len(Categories)}

\* a variant for comparison: the seasons are left out of the file
ReportDataNoSeasons(res) ==
    [obj |-> << [k |-> KGeneratedAt, v |-> Str(<<"T">>)],
                [k |-> KeyOf("ingredients"), v |-> ToJs(res["ingredients"])],
                [k |-> KeyOf("dishes"), v |-> ToJs(res["dishes"])],
                [k |-> KeyOf("cookingMethods"), v |-> ToJs(res["cookingMethods"])] >>]

\* lines 465-471: const data = { generatedAt, ingredients, dishes, ... }
ReportData(res) ==
    [obj |-> << [k |-> KGeneratedAt, v |-> Str(<<"T">>)],
                [k |-> KeyOf("ingredients"), v |-> ToJs(res["ingredients"])],
                [k |-> KeyOf("dishes"), v |-> ToJs(res["dishes"])],
                [k |-> KeyOf("cookingMethods"), v |-> ToJs(res["cookingMethods"])],
                [k |-> KeyOf("seasons"), v |-> ToJs(res["seasons"])] >>]

\* two reports, and the files a user can pick
RankA == << [name |-> <<"a">>, count |-> 2], [name |-> <<"b">>, count |-> 1] >>

RankX == << [name |-> <<"x">>, count |-> 1] >>

ReportA ==
    [c \in CategoryNames |->
        IF c = "ingredients" THEN RankA ELSE IF c = "dishes" THEN RankX ELSE <<>>]

ReportEmpty == [c \in CategoryNames |-> <<>>]

\* a report file whose four members all are the value s
ScalarDoc(s) ==
    [obj |-> [i \in 1..Len(Categories) |-> [k |-> KeyOf(Categories[i]), v |-> s]]]

DropToken(ts, k) == SubSeq(ts, 1, k - 1) \o SubSeq(ts, k + 1, Len(ts))

UploadFiles ==
    { JSONstringify(ReportData(ReportA)), JSONstringify(ReportData(ReportEmpty)) }
    \cup { JSONstringify([obj |-> Tail(ReportData(ReportA).obj)]) }
    \cup { JSONstringify(ReportDataNoSeasons(ReportA)) }
    \cup { DropToken(JSONstringify(ReportData(ReportA)), k) :
              k \in 1..Len(JSONstringify(ReportData(ReportA))) }
    \cup { JSONstringify(ScalarDoc(s)) :
              s \in {Num(1), Num(0), Str(<<"x">>), Lit("null"), Lit("true"),
                     [obj |-> <<>>]} }
    \cup { <<Lit("null")>>, <<Num(1)>>, <<P("["), P("]")>> }

\* lines 462-480: the file the browser saves
downloadReportAsJson ==
    /\ results # NullResults
    /\ reportFile' = [text |-> JSONstringify(ReportData(results)), of |-> results,
                      reloaded |-> FALSE]
    /\ UNCHANGED <<downloads, reqs, aReq, aResp, pageTitle, pageBody, artDate>>
    /\ UNCHANGED <<pureVars, clientVars>>
    /\ UNCHANGED lateVars

\* lines 515-548: reader.onload for a file with the text file
loadReportFromJson(file) ==
    /\ reportLoads < MaxLoads
    /\ LET json == JSONparse(file)
       IN  IF json = SyntaxError \/ json = Lit("null")
           THEN \* JSON.parse throws, or json.ingredients does
                /\ error' = "load: cannot read"
                /\ UNCHANGED <<results, logs, step, reportLoads>>
           ELSE IF \A c \in CategoryNames : Truthy(Prop(json, KeyOf(c)))
           THEN /\ results' = [c \in CategoryNames |-> FromJs(Prop(json, KeyOf(c)))]
                /\ logs' = logs \o <<Log("reportLoaded", 0, <<>>)>>
                             \o (IF Truthy(Prop(json, KGeneratedAt))
                                 THEN <<Log("reportDate", 0, <<>>)>> ELSE <<>>)
                /\ step' = "complete"
                /\ reportLoads' = reportLoads + 1
                /\ UNCHANGED error
           ELSE /\ error' = "load: invalid format"
                /\ UNCHANGED <<results, logs, step, reportLoads>>
    /\ reportFile' = IF reportFile # Unset /\ file = reportFile.text
                     THEN [reportFile EXCEPT !.reloaded = TRUE]
                     ELSE reportFile
    /\ UNCHANGED <<articles, pdfDataList, apiKey, skippedCount,
                   abortControllerRef, aborted>>
    /\ UNCHANGED <<scrapeVars, extractVars, analyzeVars, cancelClicks>>
    /\ UNCHANGED <<downloads, reqs, aReq, aResp, pageTitle, pageBody, artDate>>
    /\ UNCHANGED pureVars
    /\ UNCHANGED <<pcLoad, loadNames, loadI, allPdfs, loadRuns, getVars, lpVars>>

NextReport ==
    \/ downloadReportAsJson
    \/ \E file \in UploadFiles : loadReportFromJson(file)
    \/ reportFile # Unset /\ loadReportFromJson(reportFile.text)

-----------------------------------------------------------------------------
(* The specifications.                                                     *)

Next ==
    \/ SetApiKey
    \/ handleCancel
    \/ ScrapeStart
    \/ ScrapeMessage
    \/ \E arts \in ArticleLists : ScrapeComplete(arts)
    \/ ScrapeErrorMessage
    \/ ScrapeDone
    \/ ScrapeThrows
    \/ ScrapeCancelled
    \/ ExtractStart
    \/ \E o \in ExtractOutcomes : ExtractResponse(o)
    \/ ExtractCancelled
    \/ ExtractAfterWait
    \/ ExtractFinally
    \/ AnalyzeStart
    \/ \E r \in AnalyzeReplies : AnalyzeResponse(r)
    \/ AnalyzeCancelled
    \/ AnalyzeTick
    \/ AnalyzeAfterWait

\* no run of handleLoadSavedPdfs, no request to /api/scrape or /api/load-pdfs
InitLate ==
    /\ reportLoads = 0
    /\ pcLoad = "idle" /\ loadNames = 0 /\ loadI = 0 /\ allPdfs = <<>>
    /\ loadRuns = 0
    /\ gPc = "new" /\ gPage = 0 /\ gUrls = 0 /\ gI = 0
    /\ gStream = <<>> /\ gState = "readable" /\ gRejected = FALSE
    /\ lpReq = Unset /\ lpRead = <<>> /\ lpResp = Unset

\* the routes before the first request
InitRoutes ==
    /\ downloads = [f \in CacheFilenames |-> NoFile]
    /\ reqs = [r \in Requests |-> NewReq]
    /\ aReq = Unset /\ aResp = Unset
    /\ pageTitle = <<>> /\ pageBody = <<>> /\ artDate = NoValue
    /\ reportFile = Unset
    /\ InitLate

Init ==
    /\ viewUrl = <<>> /\ downloadUrl = NoValue
    /\ title = <<>> /\ filename = NoValue /\ filename2 = NoValue
    /\ InitClient
    /\ InitRoutes

Spec == Init /\ [][Next]_vars

\* getGoogleDriveDownloadUrl applied to one viewer URL
InitUrl ==
    /\ viewUrl \in UrlInputs
    /\ downloadUrl = NoValue
    /\ title = <<>> /\ filename = NoValue /\ filename2 = NoValue
    /\ InitClient
    /\ InitRoutes

CallGetGoogleDriveDownloadUrl ==
    /\ downloadUrl = NoValue
    /\ downloadUrl' = getGoogleDriveDownloadUrl(viewUrl)
    /\ UNCHANGED <<viewUrl, title, filename, filename2, clientVars, routeVars>>
    /\ UNCHANGED lateVars

SpecUrl == InitUrl /\ [][CallGetGoogleDriveDownloadUrl]_vars

\* sanitizeFilename applied to one title, and then to its own result
InitSanitize ==
    /\ title \in TitleInputs
    /\ filename = NoValue /\ filename2 = NoValue
    /\ viewUrl = <<>> /\ downloadUrl = NoValue
    /\ InitClient
    /\ InitRoutes

CallSanitizeFilename ==
    /\ filename = NoValue
    /\ filename' = sanitizeFilename(title)
    /\ UNCHANGED <<viewUrl, downloadUrl, title, filename2, clientVars, routeVars>>
    /\ UNCHANGED lateVars

CallSanitizeFilenameAgain ==
    /\ filename # NoValue /\ filename2 = NoValue
    /\ filename2' = sanitizeFilename(filename)
    /\ UNCHANGED <<viewUrl, downloadUrl, title, filename, clientVars, routeVars>>
    /\ UNCHANGED lateVars

NextSanitize == CallSanitizeFilename \/ CallSanitizeFilenameAgain

SpecSanitize == InitSanitize /\ [][NextSanitize]_vars

\* /api/extract serving requests
SpecExtractRoute == Init /\ [][NextExtractRoute]_vars

\* /api/analyze serving one request, and the analyze button of a page that
\* holds a key or not, PDFs or not
InitAnalyzeRoute ==
    /\ viewUrl = <<>> /\ downloadUrl = NoValue
    /\ title = <<>> /\ filename = NoValue /\ filename2 = NoValue
    /\ \E key \in {"", "key"}, list \in {<<>>, <<[title |-> 1]>>} :
           InitClientWith(key, list)
    /\ downloads = [f \in CacheFilenames |-> NoFile]
    /\ reqs = [r \in Requests |-> NewReq]
    /\ aReq \in AnalyzeRequests /\ aResp = Unset
    /\ pageTitle = <<>> /\ pageBody = <<>> /\ artDate = NoValue
    /\ reportFile = Unset
    /\ InitLate

NextAnalyzeRoute == CallAnalyzeRoute \/ AnalyzeStart

SpecAnalyzeRoute == InitAnalyzeRoute /\ [][NextAnalyzeRoute]_vars

\* fetchArticleDetails applied to one page
InitDate ==
    /\ viewUrl = <<>> /\ downloadUrl = NoValue
    /\ title = <<>> /\ filename = NoValue /\ filename2 = NoValue
    /\ InitClient
    /\ downloads = [f \in CacheFilenames |-> NoFile]
    /\ reqs = [r \in Requests |-> NewReq]
    /\ aReq = Unset /\ aResp = Unset
    /\ pageTitle \in Texts
    /\ pageBody \in Texts \cup {NoValue}
    /\ artDate = NoValue
    /\ reportFile = Unset
    /\ InitLate

SpecDate == InitDate /\ [][CallFetchArticleDetails]_vars

\* the report controls of the page
SpecReport == Init /\ [][NextReport]_vars

-----------------------------------------------------------------------------
(* Claims about the pure helpers.                                          *)

\* the end of the longest run of characters outside stop that begins at
\* position from of s (from - 1 when the run is empty)
RunEnd(s, from, stop) ==
    CHOOSE e \in (from - 1)..Len(s) :
        /\ \A k \in from..e : s[k] \notin stop
        /\ e = Len(s) \/ s[e + 1] \in stop

\* the positions of viewUrl where "/file/d/" is followed by at least one
\* character other than "/"
PathShapeAt ==
    { p \in 1..Len(viewUrl) :
        /\ HasAt(viewUrl, p, FileDPrefix)
        /\ p + Len(FileDPrefix) <= Len(viewUrl)
        /\ viewUrl[p + Len(FileDPrefix)] # "/" }

\* the positions of viewUrl where "?" or "&" is followed by "id=" and at
\* least one character other than "&"
QueryShapeAt ==
    { p \in 1..Len(viewUrl) :
        /\ viewUrl[p] \in {"?", "&"}
        /\ HasAt(viewUrl, p + 1, IdParam)
        /\ p + 1 + Len(IdParam) <= Len(viewUrl)
        /\ viewUrl[p + 1 + Len(IdParam)] # "&" }

Least(S) == CHOOSE x \in S : \A y \in S : x <= y

\* C1: getGoogleDriveDownloadUrl returns the download base followed by the id
\* of the first /file/d/<id> of the URL (<id>: the characters up to the next
\* "/" or the end) when there is one; otherwise the base followed by the id
\* of the first id=<id> after "?" or "&" (<id>: the characters up to the
\* next "&" or the end) when there is one; otherwise the URL itself.
C1_DriveUrl ==
    downloadUrl # NoValue =>
        IF PathShapeAt # {}
        THEN LET from == Least(PathShapeAt) + Len(FileDPrefix)
             IN  downloadUrl = DriveDownloadBase
                     \o SubSeq(viewUrl, from, RunEnd(viewUrl, from, {"/"}))
        ELSE IF QueryShapeAt # {}
        THEN LET from == Least(QueryShapeAt) + 1 + Len(IdParam)
             IN  downloadUrl = DriveDownloadBase
                     \o SubSeq(viewUrl, from, RunEnd(viewUrl, from, {"&"}))
        ELSE downloadUrl = viewUrl

\* C1 witness: a URL with both shapes has been converted and the path id won
C1_Witness ==
    /\ downloadUrl # NoValue
    /\ PathShapeAt # {} /\ QueryShapeAt # {}
    /\ downloadUrl = DriveDownloadBase \o <<"A">>
    /\ viewUrl = Concat(<< FileDPrefix, <<"A">>, <<"/", "v", "i", "e", "w">>,
                           <<"?", "i", "d", "=">>, <<"B">> >>)

\* C2: sanitizeFilename is idempotent, and its result has no character of
\* < > : " / \ | ? *, no whitespace, and at most 100 characters.
C2_Sanitize ==
    /\ filename # NoValue =>
          /\ \A k \in 1..Len(filename) :
                 filename[k] \notin ForbiddenChars \cup Whitespace
          /\ Len(filename) <= MaxFilenameLength
    /\ filename2 # NoValue => filename2 = filename

\* C2 witness: a title longer than the cap, with whitespace and a forbidden
\* character, has been sanitized twice
C2_Witness ==
    /\ filename2 # NoValue
    /\ Len(title) > MaxFilenameLength
    /\ \E k \in 1..Len(title) : title[k] \in Whitespace
    /\ \E k \in 1..Len(title) : title[k] \in ForbiddenChars
    /\ Len(filename) = MaxFilenameLength
    /\ filename[1] = "_"

-----------------------------------------------------------------------------
(* Claims about handleAnalyze.                                             *)

CategorySet == {Categories[k] : k \in 1..Len(Categories)}

\* the items of a list that are strings and trim to key
ItemsEqual(items, key) ==
    Cardinality({k \in 1..Len(items) :
                    items[k] # NonString /\ Trim(items[k]) = key})

\* the items of category c, over the documents docs, that trim to key
RECURSIVE DocsCount(_, _, _)
DocsCount(docs, c, key) ==
    IF docs = <<>> THEN 0
    ELSE ItemsEqual(Head(docs)[c], key) + DocsCount(Tail(docs), c, key)

\* every key a reply of the model can give, and every key a map holds
KeysOf(m) == {m[k].name : k \in 1..Len(m)}
ReplyKeys ==
    UNION { { Trim(r.data[c][k]) : k \in {j \in 1..Len(r.data[c]) :
                                            r.data[c][j] # NonString} } :
            r \in AnalyzeReplies, c \in CategorySet }

\* the count a ranking reports for key (0: not listed)
Reported(ranking, key) ==
    IF \E k \in 1..Len(ranking) : ranking[k].name = key
    THEN (CHOOSE e \in {ranking[k] : k \in 1..Len(ranking)} : e.name = key).count
    ELSE 0

\* C3: at every point of an analysis run every key of the four count maps is
\* a trimmed, non-empty string, and the count of a key is the number of items
\* trimming to it over the documents analysed successfully so far.
C3_CountsOfSuccessfulDocs ==
    pcAnalyze \in {"fetch", "wait", "done"} =>
        \A c \in CategorySet :
            /\ \A key \in KeysOf(countMaps[c]) : key # <<>> /\ Trim(key) = key
            /\ \A key \in (ReplyKeys \cup KeysOf(countMaps[c])) \ {<<>>} :
                   MapGet(countMaps[c], key) = DocsCount(analyzeOk, c, key)

\* the place of name in the map m (insertion order)
PlaceIn(m, name) == CHOOSE k \in 1..Len(m) : m[k].name = name

\* ranking lists the entries of the map m by count, largest first, entries of
\* equal count in the order of m
IsRankingOf(ranking, m) ==
    /\ Len(ranking) = Len(m)
    /\ \A k \in 1..Len(ranking) :
           /\ MapHas(m, ranking[k].name)
           /\ MapGet(m, ranking[k].name) = ranking[k].count
    /\ \A i, j \in 1..Len(ranking) :
           i < j =>
               /\ ranking[i].name # ranking[j].name
               /\ ranking[i].count >= ranking[j].count
               /\ ranking[i].count = ranking[j].count =>
                      PlaceIn(m, ranking[i].name) < PlaceIn(m, ranking[j].name)

\* C4: each ranking handleAnalyze publishes lists the entries of its count
\* map by count in non-increasing order, entries of equal count in the order
\* in which their keys were first inserted (which fixes the ranking, given
\* the map).
C4_RankingSorted ==
    analyzeEnded # "no" =>
        \A c \in CategorySet : IsRankingOf(results[c], countMaps[c])

\* C4 witness: a published ranking that differs from the insertion order and
\* holds two entries of equal count
C4_Witness ==
    /\ analyzeEnded # "no"
    /\ results # NullResults
    /\ results["ingredients"] # countMaps["ingredients"]
    /\ \E i, j \in 1..Len(results["ingredients"]) :
           i < j /\ results["ingredients"][i].count = results["ingredients"][j].count

\* C5: once the signal of a running analysis has fired, the next step of the
\* page ends the run: no further request, results become the rankings of the
\* counts so far, step becomes 'complete', and error is left as it was.  The
\* controller a running analysis created is the one the cancel button aborts.
C5_CancelPublishesPartial ==
    [][ /\ (pcAnalyze \in {"fetch", "wait"} /\ aborted["analyze"]) =>
              /\ pcAnalyze' = "done"
              /\ analyzeSent' = analyzeSent
              /\ countMaps' = countMaps
              /\ results' = Rankings(countMaps)
              /\ step' = "complete"
              /\ error' = error
        /\ pcAnalyze' \in {"fetch", "wait"} =>
              step' = "analyzing" /\ abortControllerRef' = "analyze"
      ]_vars

\* C5 witness: a run cancelled after a first document was counted has
\* published that document's rankings
C5_Witness ==
    /\ analyzeEnded = "cancel"
    /\ successCount = 1
    /\ Len(analyzePdfs) = 2
    /\ step = "complete"
    /\ results # NullResults
    /\ results["ingredients"] # <<>>
    /\ error = "null"

\* C6: when the run ends by cancellation, the count reported for every term
\* is its count over the documents whose reply was received and counted
\* before the signal was observed, each once.
C6_CancelledReportConsistent ==
    analyzeEnded = "cancel" =>
        \A c \in CategorySet :
            \A key \in (ReplyKeys \cup KeysOf(results[c])) \ {<<>>} :
                Reported(results[c], key) = DocsCount(analyzeOk, c, key)

\* the requests of a history, as the documents they asked for
DocsOf(sent) == [k \in 1..Len(sent) |-> sent[k].doc]

\* C7: no /api/extract and no /api/analyze request is sent on a signal that
\* has been aborted.
C7_NoRequestAfterAbort ==
    /\ \A k \in 1..Len(extractSent) : ~extractSent[k].aborted
    /\ \A k \in 1..Len(analyzeSent) : ~analyzeSent[k].aborted

\* C7 witness: an analysis was cancelled during the wait after its first
\* document, and the second document was never requested
C7_Witness ==
    /\ analyzeEnded = "cancel"
    /\ Len(analyzePdfs) = 2
    /\ Len(analyzeSent) = 1
    /\ analyzeSent[1].outcome # "pending"

\* C8: within one run each document is requested at most once, whatever its
\* request came to.
C8_NoRetry ==
    /\ \A i, j \in 1..Len(extractSent) :
           i # j => extractSent[i].doc # extractSent[j].doc
    /\ \A i, j \in 1..Len(analyzeSent) :
           i # j => analyzeSent[i].doc # analyzeSent[j].doc

\* C8 witness: a download run has ended after a thrown error and a failed
\* reply, with one request for each article
C8_Witness ==
    /\ extractEnded = "normal"
    /\ Len(extractSent) = 2
    /\ extractSent[1].outcome = "threw"
    /\ extractSent[2].outcome = "failed"

-----------------------------------------------------------------------------
(* Claims about failures and partial results.                              *)

ExtractFailures == {"denied", "failed", "threw"}

\* this step settles the pending /api/extract request as a failure
ExtractFailStep ==
    /\ pcExtract = "fetch"
    /\ extractSent[Len(extractSent)].outcome = "pending"
    /\ Len(extractSent') >= Len(extractSent)
    /\ extractSent'[Len(extractSent)].outcome \in ExtractFailures

\* this step settles the pending /api/analyze request, and the document is
\* not counted as a success
AnalyzeFailStep ==
    /\ pcAnalyze = "fetch"
    /\ analyzeSent[Len(analyzeSent)].outcome = "pending"
    /\ Len(analyzeSent') >= Len(analyzeSent)
    /\ analyzeSent'[Len(analyzeSent)].outcome # "pending"
    /\ successCount' = successCount

\* this step appends one skip or error line that names doc
LogAppendedFor(doc) ==
    /\ Len(logs') = Len(logs) + 1
    /\ SubSeq(logs', 1, Len(logs)) = logs
    /\ logs'[Len(logs')].kind \in {"skip", "error"}
    /\ logs'[Len(logs')].doc = doc

\* a failure leaves the run in its loop, and a wait that ends without the
\* signal having fired goes on to the next document, or ends the run
\* normally after the last one
LoopGoesOn ==
    /\ ExtractFailStep =>
          pcExtract' = "wait" /\ extractEnded' = "no" /\ extractI' = extractI
    /\ AnalyzeFailStep =>
          pcAnalyze' = "wait" /\ analyzeEnded' = "no" /\ analyzeI' = analyzeI
    /\ (pcExtract = "wait" /\ pcExtract' # "wait" /\ ~aborted["extract"]) =>
          IF extractI < Len(targets)
          THEN /\ pcExtract' = "fetch" /\ extractI' = extractI + 1
               /\ extractSent' = Append(extractSent, Sent(extractI + 1, FALSE))
          ELSE extractEnded' = "normal"
    /\ (pcAnalyze = "wait" /\ pcAnalyze' # "wait" /\ ~aborted["analyze"]) =>
          IF analyzeI < Len(analyzePdfs)
          THEN /\ pcAnalyze' = "fetch" /\ analyzeI' = analyzeI + 1
               /\ analyzeSent' = Append(analyzeSent, Sent(analyzeI + 1, FALSE))
          ELSE analyzeEnded' = "normal"

\* C9 as stated: every failed request of either loop increments its skip
\* counter, leaves the loop running, and appends a log line for the document.
C9_EveryFailureLogged ==
    [][ /\ ExtractFailStep =>
              /\ skippedLocal' = skippedLocal + 1
              /\ LogAppendedFor(targets[extractI].title)
        /\ AnalyzeFailStep =>
              /\ errorCount' = errorCount + 1
              /\ LogAppendedFor(analyzePdfs[analyzeI].title)
        /\ LoopGoesOn
      ]_vars

\* C9 as amended: every failed request of either loop increments its skip
\* counter and leaves the loop running; the analyze loop appends a log line
\* for every failed document; the extract loop appends one only for a
\* success-false reply whose error is not 'Access denied', and none for an
\* access-denied reply or a thrown network error.
C9_FailureIsSkip ==
    [][ /\ ExtractFailStep =>
              /\ skippedLocal' = skippedLocal + 1
              /\ pdfs' = pdfs
              /\ IF extractSent'[Len(extractSent)].outcome = "failed"
                 THEN LogAppendedFor(targets[extractI].title)
                 ELSE logs' = logs
        /\ AnalyzeFailStep =>
              /\ errorCount' = errorCount + 1
              /\ LogAppendedFor(analyzePdfs[analyzeI].title)
        /\ LoopGoesOn
      ]_vars

\* C9 witness: a download run has ended after an access-denied reply and a
\* failed reply: two skips, one skip line
C9_Witness ==
    /\ extractEnded = "normal"
    /\ Len(extractSent) = 2
    /\ extractSent[1].outcome = "denied"
    /\ extractSent[2].outcome = "failed"
    /\ skippedCount = 2
    /\ Len(SelectSeq(logs, LAMBDA l : l.kind = "skip")) = 1

\* the place of the article with title t in articles
ArticlePlace(t) == CHOOSE k \in 1..Len(articles) : articles[k].title = t

\* C10: when handleExtract has ended, normally or by cancellation,
\* pdfDataList holds the PDFs of exactly the articles whose request came to a
\* success, in article order, and skippedCount is the number of articles
\* skipped.
C10_PartialDownloadsKept ==
    pcExtract = "done" =>
        LET ok == SelectSeq(extractSent,
                      LAMBDA e : e.outcome \in {"cached", "downloaded"})
            skipped == SelectSeq(extractSent,
                      LAMBDA e : e.outcome \in ExtractFailures)
        IN  /\ pdfDataList = [k \in 1..Len(ok) |-> [title |-> targets[ok[k].doc].title]]
            /\ \A i, j \in 1..Len(pdfDataList) :
                   i < j => ArticlePlace(pdfDataList[i].title)
                              < ArticlePlace(pdfDataList[j].title)
            /\ skippedCount = Len(skipped)

\* C10 witness: a download run cancelled while its second request was
\* pending has ended and kept the first PDF
C10_Witness ==
    /\ pcExtract = "done"
    /\ extractEnded = "cancel"
    /\ Len(extractSent) = 2
    /\ extractSent[2].outcome = "pending"
    /\ Len(pdfDataList) = 1

-----------------------------------------------------------------------------
(* Claims about /api/extract.                                              *)

\* the first response of request r is an HTML page
FirstIsHtml(r) ==
    reqs[r].first.kind = "reply" /\ reqs[r].first.ctype = "text/html"

\* the response to the confirm link is OK and a PDF or an octet stream
SecondIsPdf(r) ==
    /\ reqs[r].second.kind = "reply" /\ reqs[r].second.ok
    /\ reqs[r].second.ctype \in {"application/pdf", "application/octet-stream"}

\* C11: a request whose first response is an HTML page with an
\* access-denied phrase, with or without a confirm link, is answered with
\* success=false and skipped=true after that one fetch: the confirm link is
\* not followed and nothing is written.
C11_AccessDeniedIsSkip ==
    \A r \in Requests :
        (FirstIsHtml(r) /\ reqs[r].first.denied) =>
            /\ reqs[r].pc = "done"
            /\ ~reqs[r].resp.success /\ reqs[r].resp.skipped
            /\ reqs[r].fetches = 1
            /\ reqs[r].second = NoReply
            /\ ~reqs[r].wrote

\* C11 witness: an OK page that holds both an access-denied phrase and a
\* confirm link has been answered as access denied
C11_Witness ==
    \E r \in Requests :
        /\ FirstIsHtml(r) /\ reqs[r].first.ok
        /\ reqs[r].first.denied /\ reqs[r].first.confirm
        /\ reqs[r].pc = "done"
        /\ reqs[r].resp.error = "Access denied"

\* what C12 says of a request whose confirm link is to be followed
ConfirmOutcome(r) ==
    /\ reqs[r].fetches = 2
    /\ reqs[r].pc \in {"confirm", "save", "done"}
    /\ reqs[r].pc = "save" => SecondIsPdf(r)
    /\ reqs[r].pc = "done" =>
          /\ reqs[r].second # NoReply
          /\ reqs[r].resp.success =>
                /\ SecondIsPdf(r)
                /\ ~reqs[r].resp.cached
                /\ reqs[r].wrote
                /\ reqs[r].resp.pdfBase64 = Base64(reqs[r].second.bytes)
          /\ ~reqs[r].resp.success => reqs[r].resp.skipped /\ ~reqs[r].wrote
          /\ ~SecondIsPdf(r) => ~reqs[r].resp.success

\* C12 as stated: whenever the first response is an HTML page without an
\* access-denied phrase and with a confirm link, the link is followed once,
\* and the PDF is saved and returned only from an OK confirm response of a
\* PDF or octet-stream type.
C12_ConfirmLinkFollowed ==
    \A r \in Requests :
        (FirstIsHtml(r) /\ ~reqs[r].first.denied /\ reqs[r].first.confirm)
            => ConfirmOutcome(r)

\* C12 as amended: the same for a first response that is OK; an HTML page
\* that comes with a status outside 200-299 is answered as a failed download
\* and its confirm link is not followed.
C12_ConfirmLinkOfOkPage ==
    \A r \in Requests :
        (FirstIsHtml(r) /\ ~reqs[r].first.denied /\ reqs[r].first.confirm) =>
            IF reqs[r].first.ok
            THEN ConfirmOutcome(r)
            ELSE /\ reqs[r].fetches = 1 /\ reqs[r].pc = "done"
                 /\ ~reqs[r].resp.success /\ reqs[r].resp.skipped
                 /\ ~reqs[r].wrote

\* C12 witness: a confirm link was followed and its PDF saved and returned
C12_Witness ==
    \E r \in Requests :
        /\ FirstIsHtml(r) /\ reqs[r].first.ok /\ reqs[r].first.confirm
        /\ reqs[r].pc = "done" /\ SecondIsPdf(r)
        /\ reqs[r].resp.success /\ reqs[r].wrote
        /\ downloads[CacheFilename(reqs[r].title)].bytes = reqs[r].second.bytes

\* C13: a request answered from the cache is answered with the file that
\* was saved for its own title.
C13_OneFilePerArticle ==
    \A r \in Requests :
        (reqs[r].pc = "done" /\ reqs[r].resp.cached) =>
            reqs[r].seen.savedFor = reqs[r].title

\* what C14 says of a request that arrived when a file saved for its title
\* was there, and that could read it
ServedFromCache(r) ==
    /\ reqs[r].pc = "done"
    /\ reqs[r].resp.success /\ reqs[r].resp.cached
    /\ reqs[r].seen # NoFile
    /\ reqs[r].resp.pdfBase64 = Base64(reqs[r].seen.bytes)
    /\ reqs[r].resp.size = Len(reqs[r].seen.bytes)
    /\ reqs[r].fetches = 0
    /\ ~reqs[r].wrote

\* request r arrived after a PDF had been saved for its title, and has got
\* past the look at the cache without a failure to read the file
ArrivedAfterSave(r) ==
    /\ reqs[r].pc \notin {"new", "check"}
    /\ reqs[r].present # NoFile
    /\ reqs[r].present.savedFor = reqs[r].title
    /\ reqs[r].readOk

\* C14 as stated: every request that arrives after a PDF was saved for its
\* title is answered from the cache with the bytes and size of the file, with
\* no fetch and no write.
C14_LaterRequestsServedFromCache ==
    \A r \in Requests : ArrivedAfterSave(r) => ServedFromCache(r)

\* C14 as amended: the same for every such request that carries a pdfUrl; a
\* request without pdfUrl is answered 400 before the cache is looked at.
C14_LaterRequestsWithUrlServedFromCache ==
    \A r \in Requests :
        ArrivedAfterSave(r) =>
            IF reqs[r].pdfUrl # ""
            THEN ServedFromCache(r)
            ELSE /\ reqs[r].resp.status = 400 /\ ~reqs[r].resp.success
                 /\ reqs[r].fetches = 0 /\ ~reqs[r].wrote

\* C14 witness: a second request for a title was answered from the cache
\* with the bytes the first one saved
C14_Witness ==
    /\ reqs[1].wrote /\ reqs[2].title = reqs[1].title
    /\ ArrivedAfterSave(2) /\ reqs[2].pdfUrl # ""
    /\ reqs[2].resp.cached
    /\ reqs[2].resp.pdfBase64 = reqs[1].resp.pdfBase64
    /\ reqs[2].resp.size = 2

-----------------------------------------------------------------------------
(* Claims about /api/analyze and the analyze button.                       *)

\* the body of the request lacks the PDF data or the key
BodyIncomplete ==
    \/ aReq.pdf = NoPdf
    \/ aReq.pdf.pdfBase64 = ""
    \/ aReq.apiKey = ""

\* C15: handleAnalyze called without a key or without PDFs sets the error,
\* leaves step as it is and sends no request; /api/analyze answers a body
\* without PDF data or without a key with status 400 and success=false and
\* does not call the model.
C15_MissingInputSurfaced ==
    /\ [](aResp # Unset /\ BodyIncomplete =>
             /\ aResp.status = 400
             /\ ~aResp.success
             /\ ~aResp.modelCalled)
    /\ [][ (AnalyzeStart /\ (apiKey = "" \/ pdfDataList = <<>>)) =>
              /\ error' # "null"
              /\ step' = step
              /\ analyzeSent' = analyzeSent
              /\ pcAnalyze' = pcAnalyze
         ]_vars

\* C15 witness: the page without a key has shown the error and sent
\* nothing, and the route has answered 400 to a body with a PDF and no key
C15_Witness ==
    /\ apiKey = "" /\ error = "analyze: no API key"
    /\ step = "idle" /\ analyzeSent = <<>>
    /\ aReq.pdf # NoPdf /\ aReq.apiKey = ""
    /\ aResp # Unset /\ aResp.status = 400 /\ ~aResp.modelCalled

\* the first brace-delimited substring of a text: from its first opening
\* brace that has a closing brace after it to the first closing brace after
\* that; NoMatch if there is none
FirstBraced(s) ==
    LET starts == {p \in 1..Len(s) :
                      s[p] = "{" /\ \E q \in (p + 1)..Len(s) : s[q] = "}"}
    IN  IF starts = {} THEN NoMatch
        ELSE LET a == CHOOSE p \in starts : \A q \in starts : p <= q
                 ends == {q \in (a + 1)..Len(s) : s[q] = "}"}
                 b == CHOOSE q \in ends : \A x \in ends : q <= x
             IN  SubSeq(s, a, b)

\* C16: when the model has replied, a reply whose first brace-delimited
\* substring is a well-formed JSON object is answered with success=true and
\* that object's four lists (a missing list as empty), whatever follows the
\* object; a reply without a brace-delimited substring is answered with
\* success=false and the failure-to-extract error.
C16_FirstBracedObjectIsTaken ==
    (aResp # Unset /\ ~BodyIncomplete /\ aReq.reply # ModelThrows) =>
        LET braced == FirstBraced(aReq.reply)
        IN  IF braced = NoMatch
            THEN ~aResp.success /\ aResp.error = "no JSON"
            ELSE JsonParse(braced) # SyntaxError =>
                    /\ aResp.success
                    /\ aResp.data =
                          [ingredients |-> OrEmpty(JsonParse(braced).ingredients),
                           dishes |-> OrEmpty(JsonParse(braced).dishes),
                           cookingMethods |-> OrEmpty(JsonParse(braced).cookingMethods),
                           seasons |-> OrEmpty(JsonParse(braced).seasons)]

-----------------------------------------------------------------------------
(* Claims about the date of an article.                                    *)

AllDigits(s, a, b) == \A k \in a..b : k <= Len(s) /\ s[k] \in Digits

\* a number of one or two digits written with two
TwoDigits(d) == IF Len(d) = 1 THEN <<"0">> \o d ELSE d

\* the places of s where a year, the year sign, a month of lm digits and the
\* month sign stand
YearMonthPlaces(s, lm) ==
    {p \in 1..Len(s) :
        /\ AllDigits(s, p, p + 3) /\ HasAt(s, p + 4, <<Nen>>)
        /\ AllDigits(s, p + 5, p + 4 + lm) /\ HasAt(s, p + 5 + lm, <<Gatsu>>)}

\* the explicit dates of a text, each with its place, as YYYY-MM-DD
ExplicitDates(s) ==
    UNION { UNION { { [at |-> p,
                       date |-> SubSeq(s, p, p + 3) \o <<"-">>
                                \o TwoDigits(SubSeq(s, p + 5, p + 4 + lm)) \o <<"-">>
                                \o TwoDigits(SubSeq(s, p + 6 + lm, p + 5 + lm + ld))] :
                      p \in {q \in YearMonthPlaces(s, lm) :
                                /\ AllDigits(s, q + 6 + lm, q + 5 + lm + ld)
                                /\ HasAt(s, q + 6 + lm + ld, <<Nichi>>)} } :
                    ld \in 1..2 } : lm \in 1..2 }

\* the issue labels of a text, each with its place, as the 1st of the month
IssueLabels(s) ==
    UNION { { [at |-> p,
               date |-> SubSeq(s, p, p + 3) \o <<"-">>
                        \o TwoDigits(SubSeq(s, p + 5, p + 4 + lm)) \o <<"-", "0", "1">>] :
              p \in {q \in YearMonthPlaces(s, lm) : HasAt(s, q + 6 + lm, <<Gou>>)} } :
            lm \in 1..2 }

\* the first of a set of finds
FirstOf(finds) == CHOOSE f \in finds : \A g \in finds : f.at <= g.at

\* C17: the date of an article is the first explicit date of its page, as
\* zero-padded YYYY-MM-DD; without one it is the 1st of the month of the
\* issue label of its title; without either, and when the page cannot be
\* fetched, it is empty.  An issue label does not override an explicit date.
C17_ArticleDate ==
    artDate # NoValue =>
        IF pageBody = NoValue THEN artDate = <<>>
        ELSE LET html == pageTitle \o TagBreak \o pageBody
             IN  IF ExplicitDates(html) # {}
                 THEN artDate = FirstOf(ExplicitDates(html)).date
                 ELSE IF IssueLabels(pageTitle) # {}
                 THEN artDate = FirstOf(IssueLabels(pageTitle)).date
                 ELSE artDate = <<>>

\* C17 witness: a page whose title is an issue label of January 2024 and
\* whose body holds the date 5 December 2023 is dated 2023-12-05
C17_Witness ==
    /\ pageTitle = <<"2", "0", "2", "4", Nen, "1", Gatsu, Gou>>
    /\ pageBody = <<"x", "2", "0", "2", "3", Nen, "1", "2", Gatsu, "5", Nichi>>
    /\ artDate = <<"2", "0", "2", "3", "-", "1", "2", "-", "0", "5">>

-----------------------------------------------------------------------------
(* Claims about the report files.                                          *)

\* C18: loading the file that downloadReportAsJson wrote sets results to the
\* four rankings the file was made of, names, counts and order alike, and
\* sets step to 'complete'.
C18_ReportRoundTrip ==
    [][ (reportFile # Unset /\ loadReportFromJson(reportFile.text)) =>
            /\ results' = reportFile.of
            /\ step' = "complete"
      ]_vars

\* C18 witness: a report with two ranked ingredients was loaded, downloaded,
\* and the download was loaded again
C18_Witness ==
    /\ reportFile # Unset /\ reportFile.reloaded
    /\ reportFile.of = ReportA
    /\ Len(logs) >= 3
    /\ results = ReportA /\ step = "complete"

\* a parsed file carries the four rankings in the report format
CarriesFourRankings(json) ==
    /\ IsObj(json)
    /\ \A c \in CategoryNames : IsRankingValue(Prop(json, KeyOf(c)))

Malformed(file) ==
    \/ JSONparse(file) = SyntaxError
    \/ ~CarriesFourRankings(JSONparse(file))

\* C19: loading a file that is not valid JSON, or that does not carry the
\* four rankings in the report format, sets the error and leaves results and
\* step as they were.
C19_MalformedFileRejected ==
    [][ \A file \in UploadFiles :
            (Malformed(file) /\ loadReportFromJson(file)) =>
                /\ error' # "null"
                /\ results' = results
                /\ step' = step
      ]_vars

-----------------------------------------------------------------------------
(* Claims about the pace of an analysis.                                   *)

\* C20: in one analysis the request for a further document is started only
\* from the wait, when the request before it has been settled and the timer
\* of the wait has run down; the timer is set to the same one second after
\* every settled request, whatever its outcome, and only the passing of
\* time brings it down.
C20_SequentialFixedDelay ==
    [][ /\ (Len(analyzeSent) >= 1 /\ Len(analyzeSent') = Len(analyzeSent) + 1) =>
              /\ pcAnalyze = "wait"
              /\ analyzeTimer = 0
              /\ analyzeSent[Len(analyzeSent)].outcome # "pending"
        /\ (pcAnalyze = "fetch" /\ pcAnalyze' = "wait") =>
              analyzeTimer' = AnalyzeWaitMs
        /\ (pcAnalyze = "wait" /\ pcAnalyze' = "wait") =>
              analyzeTimer' \in {analyzeTimer, analyzeTimer - TickMs}
      ]_vars

\* C20 witness: the second request of a run is under way after the first
\* one failed and the wait after it has run down
C20_Witness ==
    /\ pcAnalyze = "fetch"
    /\ Len(analyzeSent) = 2
    /\ analyzeSent[1].outcome = "fail"
    /\ analyzeSent[2].outcome = "pending"
    /\ analyzeTimer = 0

-----------------------------------------------------------------------------
(* handleLoadSavedPdfs (part_001 lines 103-148), and the whole session.    *)

MaxLoadRuns == 1        \* runs of handleLoadSavedPdfs started in one session
MaxSavedPdfs == 6       \* files GET /api/load-pdfs can list

\* line 119: const batchSize = 5
LoadBatchSize == 5

\* a variant for comparison: the button of the saved PDFs is never disabled
LoadButtonEnabledAlways == TRUE

\* lines 681-686: disabled={step !== 'idle'}
LoadButtonEnabled == step = "idle"

\* The button is rendered while pdfDataList is empty and savedPdfCount > 0;
\* savedPdfCount is what the last checkSavedPdfs saw in the directory of the
\* server, which can hold files of earlier sessions.
LoadStartWhen(enabled) ==
    /\ enabled /\ pdfDataList = <<>>
    /\ ~Pending
    /\ pcLoad = "idle"
    /\ loadRuns < MaxLoadRuns
    /\ loadRuns' = loadRuns + 1
    /\ step' = "loading"
    /\ error' = "null"
    /\ logs' = Append(logs, Log("loadStart", 0, <<>>))
    /\ pcLoad' = "meta"
    /\ UNCHANGED <<loadNames, loadI, allPdfs, reportLoads>>
    /\ UNCHANGED <<articles, pdfDataList, results, apiKey, skippedCount,
                   abortControllerRef, aborted>>
    /\ UNCHANGED <<scrapeVars, extractVars, analyzeVars, cancelClicks>>
    /\ UNCHANGED <<pureVars, routeVars, getVars, lpVars>>

\* a variant for comparison: the button also works once a report is shown
LoadStartAfterComplete == LoadStartWhen(step \in {"idle", "complete"})

\* handleLoadSavedPdfs is called by a click on the enabled button
LoadStart == LoadStartWhen(LoadButtonEnabled)

\* lines 109-121: the list of the saved files has come, with n names; with
\* none the run is over, otherwise the first batch is asked for
LoadMeta(n) ==
    /\ pcLoad = "meta"
    /\ IF n = 0
       THEN /\ step' = "idle"
            /\ pcLoad' = "idle"
            /\ UNCHANGED <<logs, loadNames, loadI, allPdfs>>
       ELSE /\ logs' = Append(logs, Log("loadFound", 0, <<n>>))
            /\ loadNames' = n
            /\ loadI' = 0
            /\ allPdfs' = <<>>
            /\ pcLoad' = "batch"
            /\ UNCHANGED step
    /\ UNCHANGED <<loadRuns, reportLoads>>
    /\ UNCHANGED <<articles, pdfDataList, results, error, apiKey, skippedCount,
                   abortControllerRef, aborted>>
    /\ UNCHANGED <<scrapeVars, extractVars, analyzeVars, cancelClicks>>
    /\ UNCHANGED <<pureVars, routeVars, getVars, lpVars>>

\* the names of the batch that starts at i: filenames.slice(i, i + batchSize)
LoadBatchNames ==
    { k \in 1..loadNames : loadI < k /\ k <= loadI + LoadBatchSize }

\* lines 127-136: the reply to the POST of a batch has come with the first
\* got files of the batch (files that cannot be read are left out by the
\* server, and a reply without success adds nothing); the wait begins
LoadBatch(got) ==
    /\ pcLoad = "batch"
    /\ got <= Cardinality(LoadBatchNames)
    /\ Len(allPdfs) + got <= MaxArticles
    /\ allPdfs' = allPdfs \o [k \in 1..got |-> [title |-> loadI + k]]
    /\ pcLoad' = "wait"
    /\ UNCHANGED <<loadNames, loadI, loadRuns, reportLoads>>
    /\ UNCHANGED homeVars
    /\ UNCHANGED <<scrapeVars, extractVars, analyzeVars, cancelClicks>>
    /\ UNCHANGED <<pureVars, routeVars, getVars, lpVars>>

\* lines 123-143: the wait of 100 ms is over: i += batchSize, and the next
\* batch is asked for or the PDFs are published
LoadAfterWait ==
    /\ pcLoad = "wait"
    /\ loadI' = loadI + LoadBatchSize
    /\ IF loadI + LoadBatchSize < loadNames
       THEN /\ pcLoad' = "batch"
            /\ UNCHANGED <<pdfDataList, logs, step>>
       ELSE /\ pdfDataList' = allPdfs
            /\ logs' = Append(logs, Log("loadDone", 0, <<Len(allPdfs)>>))
            /\ step' = "idle"
            /\ pcLoad' = "idle"
    /\ UNCHANGED <<loadNames, allPdfs, loadRuns, reportLoads>>
    /\ UNCHANGED <<articles, results, error, apiKey, skippedCount,
                   abortControllerRef, aborted>>
    /\ UNCHANGED <<scrapeVars, extractVars, analyzeVars, cancelClicks>>
    /\ UNCHANGED <<pureVars, routeVars, getVars, lpVars>>

\* lines 111, 144-147: a fetch or json() rejects, or the list comes
\* without success: the catch
LoadThrows ==
    /\ pcLoad \in {"meta", "batch"}
    /\ error' = "load: error"
    /\ step' = "idle"
    /\ pcLoad' = "idle"
    /\ UNCHANGED <<loadNames, loadI, allPdfs, loadRuns, reportLoads>>
    /\ UNCHANGED <<articles, pdfDataList, results, logs, apiKey, skippedCount,
                   abortControllerRef, aborted>>
    /\ UNCHANGED <<scrapeVars, extractVars, analyzeVars, cancelClicks>>
    /\ UNCHANGED <<pureVars, routeVars, getVars, lpVars>>

MaxSessionLoads == 1    \* report files picked in a session with the stages

\* the report file the user picks in a session
SessionFiles == { JSONstringify(ReportData(ReportA)) }

\* the articles, replies and outcomes of a session: articles with a PDF link,
\* a download or a failure, an analysed document or a failure
SessionArticleLists ==
    { arts \in ArticleLists : \A k \in 1..Len(arts) : arts[k].pdfUrl # "" }

SessionExtractOutcomes == {"downloaded", "failed"}

SessionAnalyzeReplies ==
    { r \in AnalyzeReplies : r.kind = "fail" \/ (r.kind = "data" /\ r.data = DataA) }

\* the page after the key has been typed
InitSession ==
    /\ viewUrl = <<>> /\ downloadUrl = NoValue
    /\ title = <<>> /\ filename = NoValue /\ filename2 = NoValue
    /\ InitClientWith("key", <<>>)
    /\ InitRoutes

\* the page with all its handlers: the three stages, the saved PDFs and the
\* file input of the header, which is never disabled
NextSession ==
    \/ handleCancel
    \/ ScrapeStart
    \/ ScrapeMessage
    \/ \E arts \in SessionArticleLists : ScrapeComplete(arts)
    \/ ScrapeErrorMessage
    \/ ScrapeDone
    \/ ScrapeThrows
    \/ ScrapeCancelled
    \/ ExtractStart
    \/ \E o \in SessionExtractOutcomes : ExtractResponse(o)
    \/ ExtractCancelled
    \/ ExtractAfterWait
    \/ ExtractFinally
    \/ AnalyzeStart
    \/ \E r \in SessionAnalyzeReplies : AnalyzeResponse(r)
    \/ AnalyzeCancelled
    \/ AnalyzeTick
    \/ AnalyzeAfterWait
    \/ LoadStart
    \/ \E n \in {0, 1, MaxSavedPdfs} : LoadMeta(n)
    \/ \E got \in 0..MaxArticles : LoadBatch(got)
    \/ LoadAfterWait
    \/ LoadThrows
    \/ \E file \in SessionFiles :
          ~Pending /\ reportLoads < MaxSessionLoads /\ loadReportFromJson(file)

SpecSession == InitSession /\ [][NextSession]_vars

-----------------------------------------------------------------------------
(* Claims about the stages of one session.                                 *)

\* the stages whose loop is in progress
RunningStages ==
    (IF pcScrape # "idle" THEN {"scrape"} ELSE {})
    \cup (IF pcExtract \notin {"idle", "done"} THEN {"extract"} ELSE {})
    \cup (IF pcAnalyze \notin {"idle", "done"} THEN {"analyze"} ELSE {})
    \cup (IF pcLoad # "idle" THEN {"load"} ELSE {})

\* C21: at most one stage (scrape, extract, analyze, load saved PDFs) is in
\* progress at any time, the abort controller of the page belongs to the
\* stage in progress, and a stage is only started while step is 'idle' and
\* no stage is in progress.
C21_OneStageAtATime ==
    /\ [](/\ Cardinality(RunningStages) <= 1
          /\ abortControllerRef # "null" => RunningStages = {abortControllerRef})
    /\ [][ (RunningStages' \ RunningStages # {}) =>
               /\ step = "idle"
               /\ RunningStages = {}
         ]_vars

\* C21 witness: an analysis is in progress on PDFs that handleLoadSavedPdfs
\* loaded after a download run that got no PDF
C21_Witness ==
    /\ RunningStages = {"analyze"}
    /\ step = "analyzing"
    /\ extractRuns = 1 /\ extractEnded = "normal"
    /\ loadRuns = 1
    /\ analyzePdfs = allPdfs /\ allPdfs # <<>>

\* the report of the file was loaded while the analysis in progress was
\* under way
LoadedDuringAnalysis ==
    /\ "analyze" \in RunningStages
    /\ \E i, j \in 1..Len(logs) :
          /\ i < j
          /\ logs[i].kind = "analyzeStart"
          /\ logs[j].kind = "reportLoaded"

\* C25: while the loop of an analysis is in progress step is 'analyzing', and
\* a report that was loaded from a file while an analysis was in progress is
\* not replaced by that analysis.
C25_AnalysisKeepsStepAndLoadedReport ==
    /\ []("analyze" \in RunningStages => step = "analyzing")
    /\ [][ LoadedDuringAnalysis => results' = results ]_vars

\* C26: once step is 'complete' with no stage in progress, step stays
\* 'complete' and no stage is started.
C26_CompleteIsFinal ==
    [][ (step = "complete" /\ RunningStages = {}) =>
            (step' = "complete" /\ RunningStages' = {})
      ]_vars

\* C26 witness: an analysis was cancelled and has shown its report, and a
\* report file was loaded over it afterwards
C26_Witness ==
    /\ step = "complete" /\ RunningStages = {}
    /\ analyzeEnded = "cancel"
    /\ reportLoads = 1
    /\ results = ReportA
    /\ logs[Len(logs)].kind = "reportDate"

-----------------------------------------------------------------------------
(* Claims about the counters of a download run and of an analysis.         *)

\* the requests of a history that have come to an end
Finished(sent) == { k \in 1..Len(sent) : sent[k].outcome # "pending" }

\* C23: at every point of a download run cachedCount + downloadedCount +
\* skippedCount is the number of requests that have finished and the number
\* of PDFs collected is cachedCount + downloadedCount; when the run has ended
\* without cancellation the three counters sum to the number of the articles
\* with a PDF link.
C23_ExtractAccounting ==
    pcExtract \in {"fetch", "wait", "saving", "done"} =>
        /\ cachedCount + downloadedCount + skippedLocal
               = Cardinality(Finished(extractSent))
        /\ Len(pdfs) = cachedCount + downloadedCount
        /\ extractEnded = "normal" =>
              /\ cachedCount + downloadedCount + skippedLocal = Len(targets)
              /\ Len(targets) = Len(SelectSeq(articles, LAMBDA a : a.pdfUrl # ""))
              /\ skippedCount = skippedLocal
              /\ Len(pdfDataList) = cachedCount + downloadedCount

\* C23 witness: a run over two articles with a PDF link has ended with one
\* PDF from the cache and one request that threw
C23_Witness ==
    /\ pcExtract = "done" /\ extractEnded = "normal"
    /\ Len(targets) = 2
    /\ cachedCount = 1 /\ downloadedCount = 0 /\ skippedLocal = 1
    /\ extractSent[2].outcome = "threw"
    /\ Len(pdfDataList) = 1

\* C24: in an analysis a reply after which errorCount goes up leaves the four
\* count maps as they were, and successCount + errorCount is the number of
\* requests that have finished.
C24_ErroredDocAddsNothing ==
    /\ [](pcAnalyze \in {"fetch", "wait", "done"} =>
             successCount + errorCount = Cardinality(Finished(analyzeSent)))
    /\ [][ errorCount' = errorCount + 1 => countMaps' = countMaps ]_vars

-----------------------------------------------------------------------------
(* GET /api/scrape (scrape/route.ts lines 104-205): the event stream.      *)

\* line 119: for (let page = 1; page <= 15; page++)
PageLimit == 15

\* line 159: const batchSize = 3
DetailBatchSize == 3

MaxFoundOnPage == 2     \* new article URLs found on one listing page

\* sendMessage(type, data): the message as the client reads it
Message(type) == [type |-> type]

CompleteMessage(total, withPdf) ==
    [type |-> "complete", total |-> total, withPdf |-> withPdf]

\* a variant for comparison: the finally block leaves the stream open
CloseStreamNever(state) == state

\* line 194: controller.close() on a stream that is readable
CloseStream(state) == "closed"

\* controller.enqueue throws a TypeError once the consumer has cancelled the
\* stream. Thrown inside the try, it is caught at line 191, where
\* sendMessage('error') throws again; controller.close() of the finally block
\* throws as well, and start() rejects with nothing more sent.
EnqueueFails ==
    /\ gState # "readable"
    /\ gPc' = "done"
    /\ gRejected' = TRUE
    /\ UNCHANGED <<gPage, gUrls, gI, gStream, gState>>

\* lines 108-114: start(controller) runs when the stream is constructed
GStart ==
    /\ gPc = "new"
    /\ gStream' = Append(gStream, Message("log"))
    /\ gPc' = "pages"
    /\ gPage' = 1
    /\ UNCHANGED <<gUrls, gI, gState, gRejected>>
    /\ UNCHANGED <<pureVars, clientVars, routeVars, loadVars, lpVars>>

\* lines 119-152: fetchPage has returned for the page: null (the loop is left
\* and the 'log' of line 154 is sent), or a page with found new URLs (the
\* 'progress' message is sent; an empty page after the first ends the loop)
GPage(html, found) ==
    /\ gPc = "pages"
    /\ \/ EnqueueFails
       \/ /\ gState = "readable"
          /\ IF ~html
             THEN /\ gStream' = Append(gStream, Message("log"))
                  /\ gPc' = "details"
                  /\ UNCHANGED <<gPage, gUrls>>
             ELSE IF found = 0 /\ gPage > 1
             THEN /\ gStream' = gStream \o <<Message("progress"), Message("log")>>
                  /\ gPc' = "details"
                  /\ UNCHANGED <<gPage, gUrls>>
             ELSE /\ gStream' = Append(gStream, Message("progress"))
                  /\ gUrls' = gUrls + found
                  /\ gPage' = gPage + 1
                  /\ gPc' = IF gPage + 1 <= PageLimit THEN "pages" ELSE "pagesEnd"
          /\ gI' = 0
          /\ UNCHANGED <<gState, gRejected>>
    /\ UNCHANGED <<pureVars, clientVars, routeVars, loadVars, lpVars>>

\* lines 151-154: the wait after the last page is over: the 'log' message
GPagesEnd ==
    /\ gPc = "pagesEnd"
    /\ \/ EnqueueFails
       \/ /\ gState = "readable"
          /\ gStream' = Append(gStream, Message("log"))
          /\ gPc' = "details"
          /\ UNCHANGED <<gPage, gUrls, gI, gState, gRejected>>
    /\ UNCHANGED <<pureVars, clientVars, routeVars, loadVars, lpVars>>

\* lines 161-175: the details of a batch have come (fetchArticleDetails
\* catches what it throws): the 'progress' message
GDetails ==
    /\ gPc = "details" /\ gI < gUrls
    /\ \/ EnqueueFails
       \/ /\ gState = "readable"
          /\ gStream' = Append(gStream, Message("progress"))
          /\ gI' = gI + DetailBatchSize
          /\ UNCHANGED <<gPc, gPage, gUrls, gState, gRejected>>
    /\ UNCHANGED <<pureVars, clientVars, routeVars, loadVars, lpVars>>

\* lines 177-195: the loop is over: the articles are filtered down to total,
\* withPdf of them with a PDF link, 'complete' is sent and the finally block
\* closes the stream
GComplete(total, withPdf) ==
    /\ gPc = "details" /\ gI >= gUrls
    /\ withPdf <= total /\ total <= gUrls
    /\ \/ EnqueueFails
       \/ /\ gState = "readable"
          /\ gStream' = Append(gStream, CompleteMessage(total, withPdf))
          /\ gState' = CloseStream(gState)
          /\ gPc' = "done"
          /\ UNCHANGED <<gPage, gUrls, gI, gRejected>>
    /\ UNCHANGED <<pureVars, clientVars, routeVars, loadVars, lpVars>>

\* lines 191-195: something else than enqueue throws inside the try: the
\* catch sends 'error' and the finally block closes the stream
GThrows ==
    /\ gPc \in {"pages", "pagesEnd", "details"}
    /\ \/ EnqueueFails
       \/ /\ gState = "readable"
          /\ gStream' = Append(gStream, Message("error"))
          /\ gState' = CloseStream(gState)
          /\ gPc' = "done"
          /\ UNCHANGED <<gPage, gUrls, gI, gRejected>>
    /\ UNCHANGED <<pureVars, clientVars, routeVars, loadVars, lpVars>>

\* the client goes away (handleCancel aborts its fetch, part_001 lines 159-162
\* and 329-334): the stream is cancelled
GCancel ==
    /\ gPc \notin {"new", "done"} /\ gState = "readable"
    /\ gState' = "cancelled"
    /\ UNCHANGED <<gPc, gPage, gUrls, gI, gStream, gRejected>>
    /\ UNCHANGED <<pureVars, clientVars, routeVars, loadVars, lpVars>>

\* the steps of start(controller)
GStep ==
    \/ GStart
    \/ \E html \in BOOLEAN, found \in 0..MaxFoundOnPage : GPage(html, found)
    \/ GPagesEnd
    \/ GDetails
    \/ \E total \in 0..(PageLimit * MaxFoundOnPage), withPdf \in {0, 1} :
          GComplete(total, withPdf)

NextScrapeRoute == GStep \/ GThrows \/ GCancel

\* every fetch of the route settles, so start(controller) goes on
SpecScrapeRoute == Init /\ [][NextScrapeRoute]_vars /\ WF_vars(GStep)

-----------------------------------------------------------------------------
(* Claims about the event stream of /api/scrape.                           *)

\* the places of the terminal messages in the stream
Terminals ==
    { k \in 1..Len(gStream) : gStream[k].type \in {"complete", "error"} }

\* at most one terminal message was sent, and nothing after it
TerminalIsLast == Terminals \subseteq {Len(gStream)}

\* C22 as stated: every run of the route ends, and the run that has ended has
\* sent exactly one terminal message, 'complete' or 'error', as the last
\* message of the stream, and has closed the stream.
C22_StreamTerminates ==
    /\ <>(gPc = "done")
    /\ [](TerminalIsLast)
    /\ [](gPc = "done" => (Terminals = {Len(gStream)} /\ gState = "closed"))

\* C22 as amended: every run ends with the stream closed or cancelled; at
\* most one terminal message is sent, as the last message; a run whose
\* stream the client has not cancelled sends exactly one and closes the
\* stream; once the client has cancelled the stream nothing is sent any more
\* and the run ends without a terminal message.
C22_StreamTerminatesUnlessCancelled ==
    /\ <>(gPc = "done")
    /\ [](TerminalIsLast)
    /\ [](gPc = "done" =>
            IF gState = "closed"
            THEN Terminals = {Len(gStream)} /\ ~gRejected
            ELSE gState = "cancelled" /\ Terminals = {} /\ gRejected)
    /\ [][gState = "cancelled" => gStream' = gStream]_vars

\* C22 witness: a run over two listing pages and four articles has sent
\* 'complete' after its progress messages and closed the stream
C22_Witness ==
    /\ gPc = "done" /\ gState = "closed"
    /\ gUrls = 4 /\ gI = 2 * DetailBatchSize
    /\ gStream[Len(gStream)] = CompleteMessage(4, 1)
    /\ Len(gStream) = 8

-----------------------------------------------------------------------------
(* POST /api/load-pdfs (load-pdfs/route.ts lines 58-101).                  *)

MaxNameParts == 3       \* pieces of one requested file name
MaxFilenames == 2       \* file names in one request

\* A file name is a string made of pieces; "/" is the separator of the
\* platform, ".." and "." are the pieces path.join gives a meaning to.
NamePieces == {"a.pdf", "env", "..", ".", "/"}

StringName(s) == [str |-> s]

\* an element of filenames that is not a string
NumberName == [num |-> 5]

RequestedNames ==
    { StringName(s) : s \in SeqsUpTo(NamePieces, MaxNameParts) } \cup {NumberName}

\* the body of the request: filenames is an array of names, or something else
LoadRequests ==
    { [isArray |-> TRUE, items |-> l] : l \in SeqsUpTo(RequestedNames, MaxFilenames) }
    \cup { [isArray |-> FALSE, items |-> <<>>] }

\* process.cwd(), and line 5: path.join(process.cwd(), 'downloads')
Cwd == << <<"app">> >>
DOWNLOAD_DIR == Cwd \o << <<"downloads">> >>

\* the segments of a path string: the runs of pieces between separators
RECURSIVE Segments(_)
Segments(s) ==
    IF s = <<>> THEN << <<>> >>
    ELSE LET rest == Segments(Tail(s))
         IN  IF Head(s) = "/"
             THEN << <<>> >> \o rest
             ELSE << <<Head(s)>> \o Head(rest) >> \o Tail(rest)

\* path.normalize: empty and "." segments go, ".." takes the segment before
\* it away (the root has none before it)
RECURSIVE Normalize(_, _)
Normalize(done, segs) ==
    IF segs = <<>> THEN done
    ELSE IF Head(segs) \in {<<>>, <<".">>} THEN Normalize(done, Tail(segs))
    ELSE IF Head(segs) = <<"..">>
    THEN Normalize(IF done = <<>> THEN done ELSE SubSeq(done, 1, Len(done) - 1),
                   Tail(segs))
    ELSE Normalize(Append(done, Head(segs)), Tail(segs))

\* line 73: path.join(DOWNLOAD_DIR, filename), an absolute path
PathJoin(dir, s) == Normalize(dir, Segments(s))

IsUnder(path, dir) ==
    /\ Len(path) > Len(dir)
    /\ SubSeq(path, 1, Len(dir)) = dir

\* the files of the server: a PDF in the download directory and a file of
\* the application next to it; every other path cannot be read
FileAt(path) ==
    IF path = DOWNLOAD_DIR \o << <<"a.pdf">> >> THEN [bytes |-> <<1, 2>>]
    ELSE IF path = Cwd \o << <<"env">> >> THEN [bytes |-> <<7>>]
    ELSE NoFile

\* lines 72-74: the path that readFile is given for one name; path.join
\* throws for a name that is not a string, and there is no path then
PathOf(name) ==
    IF DOMAIN name = {"str"} THEN << PathJoin(DOWNLOAD_DIR, name.str) >> ELSE <<>>

\* lines 71-87: the loop over the names from k on
RECURSIVE ReadAll(_, _)
ReadAll(items, k) ==
    IF k > Len(items) THEN <<>>
    ELSE LET p == PathOf(items[k])
         IN  IF p # <<>> /\ FileAt(p[1]) # NoFile
             THEN << [filename |-> items[k],
                      pdfBase64 |-> Base64(FileAt(p[1]).bytes),
                      size |-> Len(FileAt(p[1]).bytes),
                      at |-> k, path |-> p[1]] >> \o ReadAll(items, k + 1)
             ELSE ReadAll(items, k + 1)

\* POST; of an entry of pdfs, at and path are history: the place of the name
\* in the request and the path that was read. The title, which is made of the
\* name alone, is left out.
LoadPdfsRoute(req) ==
    IF ~req.isArray
    THEN [status |-> 400, success |-> FALSE, count |-> 0, pdfs |-> <<>>]
    ELSE LET got == ReadAll(req.items, 1)
         IN  [status |-> 200, success |-> TRUE, count |-> Len(got), pdfs |-> got]

CallLoadPdfsRoute ==
    /\ lpResp = Unset
    /\ lpResp' = LoadPdfsRoute(lpReq)
    /\ lpRead' = LET given == SelectSeq(lpReq.items, LAMBDA n : PathOf(n) # <<>>)
                 IN  [k \in 1..Len(given) |-> PathOf(given[k])[1]]
    /\ UNCHANGED lpReq
    /\ UNCHANGED <<pureVars, clientVars, routeVars, loadVars, getVars>>

InitLoadPdfs ==
    /\ viewUrl = <<>> /\ downloadUrl = NoValue
    /\ title = <<>> /\ filename = NoValue /\ filename2 = NoValue
    /\ InitClient
    /\ downloads = [f \in CacheFilenames |-> NoFile]
    /\ reqs = [r \in Requests |-> NewReq]
    /\ aReq = Unset /\ aResp = Unset
    /\ pageTitle = <<>> /\ pageBody = <<>> /\ artDate = NoValue
    /\ reportFile = Unset
    /\ reportLoads = 0
    /\ pcLoad = "idle" /\ loadNames = 0 /\ loadI = 0 /\ allPdfs = <<>>
    /\ loadRuns = 0
    /\ gPc = "new" /\ gPage = 0 /\ gUrls = 0 /\ gI = 0
    /\ gStream = <<>> /\ gState = "readable" /\ gRejected = FALSE
    /\ lpReq \in LoadRequests /\ lpRead = <<>> /\ lpResp = Unset

SpecLoadPdfs == InitLoadPdfs /\ [][CallLoadPdfsRoute]_vars

-----------------------------------------------------------------------------
(* Claims about /api/load-pdfs.                                            *)

\* C27: every file whose content the response carries lies under the
\* download directory, whatever the requested names hold; count is the
\* number of the files returned, and they come in the order of the request,
\* each under the name that was asked for.
C27_OnlyDownloadDirIsRead ==
    (lpResp # Unset /\ lpResp.status = 200) =>
        /\ \A k \in 1..Len(lpResp.pdfs) : IsUnder(lpResp.pdfs[k].path, DOWNLOAD_DIR)
        /\ lpResp.count = Len(lpResp.pdfs)
        /\ \A k \in 1..Len(lpResp.pdfs) :
              /\ lpResp.pdfs[k].filename = lpReq.items[lpResp.pdfs[k].at]
              /\ k > 1 => lpResp.pdfs[k - 1].at < lpResp.pdfs[k].at

-----------------------------------------------------------------------------
(* Claims about the cache of /api/extract as a whole.                      *)

\* request r is answered in this step, with success = false
AnswersFailure(r) ==
    /\ reqs[r].resp = NoResp /\ reqs'[r].resp # NoResp
    /\ ~reqs'[r].resp.success

\* request r is on one of the two paths that save: an OK first response that
\* is not HTML, or an OK confirm response with a PDF or octet-stream type
OnSavePath(r) ==
    \/ /\ reqs[r].second = NoReply
       /\ reqs[r].first.kind = "reply" /\ reqs[r].first.ok
       /\ reqs[r].first.ctype # "text/html"
    \/ ConfirmIsPdf(reqs[r].second)

\* a request without pdfUrl is answered 400 with no look at the cache and
\* no fetch
RejectedFirst(r) ==
    /\ reqs[r].resp.status = 400 /\ ~reqs[r].resp.success
    /\ reqs[r].seen = NoFile /\ reqs[r].fetches = 0 /\ ~reqs[r].wrote
    /\ reqs[r].first = NoReply /\ reqs[r].second = NoReply

\* C28: a step in which a request is answered with success = false leaves
\* the cache as it was; the cache changes only in the save of a request on
\* one of the two success paths; a request without pdfUrl is answered 400
\* before the cache is read or a fetch is made.
C28_FailureLeavesCacheUnchanged ==
    /\ [][\A r \in Requests : AnswersFailure(r) => downloads' = downloads]_vars
    /\ [][downloads' # downloads =>
            \E r \in Requests :
                reqs[r].pc = "save" /\ reqs'[r].pc = "done" /\ OnSavePath(r)]_vars
    /\ [](\A r \in Requests :
            (reqs[r].pc = "done" /\ reqs[r].pdfUrl = "") => RejectedFirst(r))

=============================================================================
